---- MODULE Spec2Model ----
(***************************************************************************)
(* Model of the terrain core of tilemapedit3d: the tile grid (types.rs),   *)
(* the corner-height resolver and the mesh builders (terrain.rs).          *)
(*                                                                         *)
(* Lengths are f32 world units in the source.  Here they are integers in   *)
(* units of 1e-4 world units, so TILE_SIZE = 2.0 is 20000, TILE_HEIGHT =   *)
(* 0.8 is 8000 and the 1e-4 thresholds are 1.  Every height the builders   *)
(* compare is elevation * TILE_HEIGHT or 0.0, so two heights are either    *)
(* the same float or at least 0.8 apart and the integer comparisons agree  *)
(* with the f32 ones.  Vertex colour and layer components that are whole   *)
(* floats (-2.0, -1.0, 0.0, 1.0, a layer index, mask bits) are integers.   *)
(* An Option is a sequence: <<>> is None and <<v>> is Some(v).             *)
(***************************************************************************)
EXTENDS Integers, Sequences, FiniteSets, TLC

VARIABLES map, edits, result, mesh_buffers, image, writer, pushes, disk, state, frame, mesh_assets

vars == <<map, edits, result, mesh_buffers, image, writer, pushes, disk, state, frame, mesh_assets>>

\* The file system, the editor's resource, the frame schedule and the mesh
\* assets, which only the persistence, package and editor actions touch.
offEditor == <<disk, state, frame, mesh_assets>>

\* The variables the grid actions leave alone, and those the buffer, raster
\* and writer actions do.
offGrid == <<mesh_buffers, image, writer, pushes, offEditor>>

offBuffer == <<map, edits, result, image, writer, pushes, offEditor>>

offSplat == <<mesh_buffers, writer, pushes, offEditor>>

offWriter == <<map, edits, result, mesh_buffers, image, offEditor>>

\* ---------------------------------------------------------------- bounds
MaxWidth == 3

MaxHeight == 2

MaxEdits == 2

ElevRange == 1

MaxQuads == 3

MaxPushes == 4

\* The steps of writing an archive at which a failure is tried.
MaxZipSteps == 7

\* ---------------------------------------------------------------- types.rs
TILE_SIZE == 20000

TILE_HEIGHT == 8000

TileKind == {"Floor", "Ramp"}

RampDirection == {"North", "East", "South", "West"}

ALL == <<"North", "East", "South", "West">>

TileType == {"Grass", "Dirt", "Sand", "Rock"}

None == <<>>

Some(v) == <<v>>

as_index(tile_type) ==
    CASE tile_type = "Grass" -> 0
      [] tile_type = "Dirt" -> 1
      [] tile_type = "Sand" -> 2
      [] tile_type = "Rock" -> 3

offset(dir) ==
    CASE dir = "North" -> <<0, -1>>
      [] dir = "East" -> <<1, 0>>
      [] dir = "South" -> <<0, 1>>
      [] dir = "West" -> <<-1, 0>>

Tile(kind, tile_type, x, y, elevation, ramp_direction) ==
    [kind |-> kind, tile_type |-> tile_type, x |-> x, y |-> y,
     elevation |-> elevation, ramp_direction |-> ramp_direction]

\* TileMap::new: w*h default tiles, all Floor, Grass, elevation 0, x = y = 0.
new(w, h) ==
    [width |-> w, height |-> h,
     tiles |-> [i \in 1..(w * h) |-> Tile("Floor", "Grass", 0, 0, 0, None)]]

\* Variant: the tiles are laid out column by column.
idx_column_major(m, x, y) == x * m.height + y

idx(m, x, y) == y * m.width + x

\* Vec indexing is 0-based in the source, sequences are 1-based here.
get(m, x, y) == m.tiles[idx(m, x, y) + 1]

set(m, x, y, t) == [m EXCEPT !.tiles[idx(m, x, y) + 1] = t]

\* A call either returns a value or panics, which ends the process.
Returned(v) == [panicked |-> FALSE, value |-> v]

Panicked == [panicked |-> TRUE]

\* TileMap::get and TileMap::set at any coordinate: the only test is the
\* bounds check of the Vec index, i < tiles.len().
TileMap_get(m, x, y) ==
    IF idx(m, x, y) < Len(m.tiles) THEN Returned(get(m, x, y)) ELSE Panicked

TileMap_set(m, x, y, t) ==
    IF idx(m, x, y) < Len(m.tiles) THEN Returned(set(m, x, y, t)) ELSE Panicked

\* ---------------------------------------------------------------- terrain.rs: resolver
CORNER_NW == 0

CORNER_NE == 1

CORNER_SW == 2

CORNER_SE == 3

\* corners[c] of a [f32; 4]
At(corners, c) == corners[c + 1]

\* Variant: a neighbour counts when it is higher instead of lower.
ramp_neighbor_height_uphill(m, x, y, dir, base) ==
    LET nx == x + offset(dir)[1]
        ny == y + offset(dir)[2]
    IN  IF nx < 0 \/ ny < 0 THEN None
        ELSE IF nx >= m.width \/ ny >= m.height THEN None
        ELSE LET height == get(m, nx, ny).elevation * TILE_HEIGHT
             IN  IF height > base THEN Some(height) ELSE None

ramp_neighbor_height(m, x, y, dir, base) ==
    LET nx == x + offset(dir)[1]
        ny == y + offset(dir)[2]
    IN  IF nx < 0 \/ ny < 0 THEN None
        ELSE IF nx >= m.width \/ ny >= m.height THEN None
        ELSE LET height == get(m, nx, ny).elevation * TILE_HEIGHT
             IN  IF height < base THEN Some(height) ELSE None

\* Variant: the first downhill neighbour found is kept, whatever the heights.
find_ramp_target_step_first(m, x, y, base, res, dir) ==
    LET height == ramp_neighbor_height(m, x, y, dir, base)
    IN  IF height = None THEN res
        ELSE IF res # None THEN res
        ELSE Some(<<dir, height[1]>>)

\* Variant: an equal height replaces the result, so the last of a tie wins.
find_ramp_target_step_last(m, x, y, base, res, dir) ==
    LET height == ramp_neighbor_height(m, x, y, dir, base)
    IN  IF height = None THEN res
        ELSE IF res # None /\ res[1][2] < height[1] THEN res
        ELSE Some(<<dir, height[1]>>)

\* One iteration of the loop of find_ramp_target: a downhill neighbour
\* replaces the result unless the existing one is lower or equal.
find_ramp_target_step(m, x, y, base, res, dir) ==
    LET height == ramp_neighbor_height(m, x, y, dir, base)
    IN  IF height = None THEN res
        ELSE IF res # None /\ res[1][2] <= height[1] THEN res
        ELSE Some(<<dir, height[1]>>)

RECURSIVE find_ramp_target_from(_, _, _, _, _, _)
find_ramp_target_from(m, x, y, base, res, i) ==
    IF i > Len(ALL) THEN res
    ELSE find_ramp_target_from(m, x, y, base,
             find_ramp_target_step(m, x, y, base, res, ALL[i]), i + 1)

find_ramp_target(m, x, y, base) == find_ramp_target_from(m, x, y, base, None, 1)

\* Variant: the stored direction is never reused.
stored_target_ignored(m, x, y, base) == None

\* The stored direction, when it points at a valid downhill neighbour.
stored_target(m, x, y, base) ==
    LET tile == get(m, x, y)
    IN  IF tile.ramp_direction = None THEN None
        ELSE LET dir == tile.ramp_direction[1]
                 h == ramp_neighbor_height(m, x, y, dir, base)
             IN  IF h = None THEN None ELSE Some(<<dir, h[1]>>)

\* Variant: South lowers the corners of the north edge.
lower_edge_south_as_north(corners, dir, neighbor_height) ==
    CASE dir = "North" ->
           [corners EXCEPT ![CORNER_NW + 1] = neighbor_height, ![CORNER_NE + 1] = neighbor_height]
      [] dir = "South" ->
           [corners EXCEPT ![CORNER_NW + 1] = neighbor_height, ![CORNER_NE + 1] = neighbor_height]
      [] dir = "West" ->
           [corners EXCEPT ![CORNER_NW + 1] = neighbor_height, ![CORNER_SW + 1] = neighbor_height]
      [] dir = "East" ->
           [corners EXCEPT ![CORNER_NE + 1] = neighbor_height, ![CORNER_SE + 1] = neighbor_height]

lower_edge(corners, dir, neighbor_height) ==
    CASE dir = "North" ->
           [corners EXCEPT ![CORNER_NW + 1] = neighbor_height, ![CORNER_NE + 1] = neighbor_height]
      [] dir = "South" ->
           [corners EXCEPT ![CORNER_SW + 1] = neighbor_height, ![CORNER_SE + 1] = neighbor_height]
      [] dir = "West" ->
           [corners EXCEPT ![CORNER_NW + 1] = neighbor_height, ![CORNER_SW + 1] = neighbor_height]
      [] dir = "East" ->
           [corners EXCEPT ![CORNER_NE + 1] = neighbor_height, ![CORNER_SE + 1] = neighbor_height]

\* Variant: the kind is not tested, every tile is resolved as a ramp.
tile_corner_heights_any_kind(m, x, y) ==
    LET tile == get(m, x, y)
        base == tile.elevation * TILE_HEIGHT
        corners == <<base, base, base, base>>
        stored == stored_target(m, x, y, base)
        target == IF stored = None THEN find_ramp_target(m, x, y, base) ELSE stored
    IN  IF target = None THEN corners
        ELSE lower_edge(corners, target[1][1], target[1][2])

tile_corner_heights(m, x, y) ==
    LET tile == get(m, x, y)
        base == tile.elevation * TILE_HEIGHT
        corners == <<base, base, base, base>>
    IN  IF tile.kind = "Ramp"
        THEN LET stored == stored_target(m, x, y, base)
                 target == IF stored = None THEN find_ramp_target(m, x, y, base) ELSE stored
             IN  IF target = None THEN corners
                 ELSE lower_edge(corners, target[1][1], target[1][2])
        ELSE corners

\* ---------------------------------------------------------------- terrain.rs: mesh buffers
add_side_face_EPS == 1

should_force_cliff_face_EPS == 1

HEIGHT_EPSILON == 100

Vec3(x, y, z) == <<x, y, z>>

Abs(a) == IF a < 0 THEN 0 - a ELSE a

Min(a, b) == IF a < b THEN a ELSE b

Max(a, b) == IF a > b THEN a ELSE b

sub(a, b) == <<a[1] - b[1], a[2] - b[2], a[3] - b[3]>>

cross(u, v) ==
    <<u[2] * v[3] - u[3] * v[2], u[3] * v[1] - u[1] * v[3], u[1] * v[2] - u[2] * v[1]>>

Repeat6(v) == <<v, v, v, v, v, v>>

unwrap_or(opt, default) == IF opt = None THEN default ELSE opt[1]

\* MeshBuffers::default(): the layer and colour channels are absent.
MeshBuffers_default ==
    [positions |-> <<>>, normals |-> <<>>, uvs |-> <<>>, tile_layers |-> None,
     colors |-> None, indices |-> <<>>, next_index |-> 0]

with_tile_types ==
    [MeshBuffers_default EXCEPT !.tile_layers = Some(<<>>), !.colors = Some(<<>>)]

\* Variant: next_index is not advanced.
push_triangle_no_advance(b, a, vb, c, ta, tb, tc) ==
    LET normal == cross(sub(vb, a), sub(c, a))
    IN  [b EXCEPT !.positions = @ \o <<a, vb, c>>,
                  !.normals = @ \o <<normal, normal, normal>>,
                  !.uvs = @ \o <<ta, tb, tc>>,
                  !.indices = @ \o <<b.next_index, b.next_index + 1, b.next_index + 2>>]

\* The normal is kept as the cross product of the two edges; the scaling to
\* unit length of normalize_or_zero has no integer counterpart.
push_triangle(b, a, vb, c, ta, tb, tc) ==
    LET normal == cross(sub(vb, a), sub(c, a))
    IN  [b EXCEPT !.positions = @ \o <<a, vb, c>>,
                  !.normals = @ \o <<normal, normal, normal>>,
                  !.uvs = @ \o <<ta, tb, tc>>,
                  !.indices = @ \o <<b.next_index, b.next_index + 1, b.next_index + 2>>,
                  !.next_index = @ + 3]

\* Variant: a quad without colour information gets the top-face sentinel.
push_quad_top_sentinel(b, verts, tex, tile_info, color_info) ==
    LET b1 == push_triangle(b, verts[1], verts[2], verts[3], tex[1], tex[2], tex[3])
        b2 == push_triangle(b1, verts[1], verts[3], verts[4], tex[1], tex[3], tex[4])
        b3 == IF b2.tile_layers = None THEN b2
              ELSE [b2 EXCEPT !.tile_layers =
                        Some(@[1] \o Repeat6(unwrap_or(tile_info, <<0, 0>>)))]
    IN  IF b3.colors = None THEN b3
        ELSE [b3 EXCEPT !.colors =
                  Some(@[1] \o Repeat6(unwrap_or(color_info, <<-2, 0, 0, 0>>)))]

push_quad(b, verts, tex, tile_info, color_info) ==
    LET b1 == push_triangle(b, verts[1], verts[2], verts[3], tex[1], tex[2], tex[3])
        b2 == push_triangle(b1, verts[1], verts[3], verts[4], tex[1], tex[3], tex[4])
        b3 == IF b2.tile_layers = None THEN b2
              ELSE [b2 EXCEPT !.tile_layers =
                        Some(@[1] \o Repeat6(unwrap_or(tile_info, <<0, 0>>)))]
    IN  IF b3.colors = None THEN b3
        ELSE [b3 EXCEPT !.colors =
                  Some(@[1] \o Repeat6(unwrap_or(color_info, <<-1, 0, 0, 0>>)))]

\* tile_layer.map(|layer| [layer, seam_height])
layer_info(tile_layer, seam_height) ==
    IF tile_layer = None THEN None ELSE Some(<<tile_layer[1], seam_height>>)

MeshBuffers_push_quad(b, verts, tex, tile_layer, seam_height, bottom_layer) ==
    push_quad(b, verts, tex, layer_info(tile_layer, seam_height), bottom_layer)

\* Variant: one matching endpoint is enough to skip the face.
side_face_skipped_either(top_a, top_b, bottom_a, bottom_b) ==
    \/ Abs(top_a[2] - bottom_a[2]) < add_side_face_EPS
    \/ Abs(top_b[2] - bottom_b[2]) < add_side_face_EPS

side_face_skipped(top_a, top_b, bottom_a, bottom_b) ==
    /\ Abs(top_a[2] - bottom_a[2]) < add_side_face_EPS
    /\ Abs(top_b[2] - bottom_b[2]) < add_side_face_EPS

side_face_color(bottom_info, force_cliff) ==
    IF bottom_info # None
    THEN Some([bottom_info[1] EXCEPT ![3] = IF force_cliff THEN 1 ELSE 0])
    ELSE IF force_cliff THEN Some(<<-1, 0, 1, 0>>) ELSE None

add_side_face(b, top_a, top_b, bottom_a, bottom_b, direction, tile_layer, seam_height, bottom_info, force_cliff) ==
    IF side_face_skipped(top_a, top_b, bottom_a, bottom_b) THEN b
    ELSE push_quad(b, <<top_a, top_b, bottom_b, bottom_a>>,
                   <<<<0, 0>>, <<0, 0>>, <<0, 0>>, <<0, 0>>>>,
                   layer_info(tile_layer, seam_height),
                   side_face_color(bottom_info, force_cliff))

\* Variant: only the tile's own kind is looked at.
should_force_cliff_face_own_kind(tile_kind, neighbor_kind, top_a, top_b, bottom_a, bottom_b) ==
    IF tile_kind # "Ramp" THEN FALSE
    ELSE LET drop_a == top_a[2] - bottom_a[2]
             drop_b == top_b[2] - bottom_b[2]
         IN  drop_a > should_force_cliff_face_EPS \/ drop_b > should_force_cliff_face_EPS

should_force_cliff_face(tile_kind, neighbor_kind, top_a, top_b, bottom_a, bottom_b) ==
    IF tile_kind # "Ramp" /\ neighbor_kind # Some("Ramp") THEN FALSE
    ELSE LET drop_a == top_a[2] - bottom_a[2]
             drop_b == top_b[2] - bottom_b[2]
         IN  drop_a > should_force_cliff_face_EPS \/ drop_b > should_force_cliff_face_EPS

max_corner_height(corners) ==
    Max(Max(Max(corners[1], corners[2]), corners[3]), corners[4])

\* corner_cache[idx] of the Vec built by populate_mesh_buffers
cached(corner_cache, m, x, y) == corner_cache[idx(m, x, y) + 1]

\* Variant: the neighbour's north-west corner stands for its maximum.
near_first_corner(top_height, neighbor) ==
    Abs(top_height - neighbor[1]) < HEIGHT_EPSILON

near(top_height, neighbor) ==
    Abs(top_height - max_corner_height(neighbor)) < HEIGHT_EPSILON

tile_top_blend_mask(m, corner_cache, x, y, top_height) ==
    LET north == IF y > 0 /\ near(top_height, cached(corner_cache, m, x, y - 1))
                 THEN 1 ELSE 0
        south == IF y + 1 < m.height /\ near(top_height, cached(corner_cache, m, x, y + 1))
                 THEN 2 ELSE 0
        west == IF x > 0 /\ near(top_height, cached(corner_cache, m, x - 1, y))
                THEN 4 ELSE 0
        east == IF x + 1 < m.width /\ near(top_height, cached(corner_cache, m, x + 1, y))
                THEN 8 ELSE 0
    IN  <<-2, north + south + west + east, 0, 0>>

\* ---------------------------------------------------------------- terrain.rs: geometry
ZeroTex == <<<<0, 0>>, <<0, 0>>, <<0, 0>>, <<0, 0>>>>

\* Variant: the neighbour's two corner heights are taken in the other order.
neighbor_edge_swapped(m, corner_cache, on_grid, nx, ny, ca, cb) ==
    IF on_grid
    THEN LET neighbor == cached(corner_cache, m, nx, ny)
             neighbor_tile == get(m, nx, ny)
         IN  <<At(neighbor, cb), At(neighbor, ca), Some(neighbor_tile.kind),
               Some(as_index(neighbor_tile.tile_type))>>
    ELSE <<0, 0, None, None>>

\* The neighbour tuple of one edge block of append_tile_geometry: the two
\* neighbour corner heights, the neighbour's kind and its layer, or
\* (0.0, 0.0, None, None) when the neighbour is off-grid.
neighbor_edge(m, corner_cache, on_grid, nx, ny, ca, cb) ==
    IF on_grid
    THEN LET neighbor == cached(corner_cache, m, nx, ny)
             neighbor_tile == get(m, nx, ny)
         IN  <<At(neighbor, ca), At(neighbor, cb), Some(neighbor_tile.kind),
               Some(as_index(neighbor_tile.tile_type))>>
    ELSE <<0, 0, None, None>>

\* bottom_layer.map(|layer| [layer, bottom_height, 0.0, 0.0])
bottom_info(bottom_layer, bottom_a_y, bottom_b_y) ==
    IF bottom_layer = None THEN None
    ELSE Some(<<bottom_layer[1], Max(bottom_a_y, bottom_b_y), 0, 0>>)

\* One edge block: the bottom heights are clamped by min to the tile's own
\* corners, then should_force_cliff_face and add_side_face are called.
side_block(buffer, tile_kind, nb, top_a, top_b, bottom_a_y, bottom_b_y, direction, tile_layer) ==
    LET bottom_a == Vec3(top_a[1], bottom_a_y, top_a[3])
        bottom_b == Vec3(top_b[1], bottom_b_y, top_b[3])
        force_cliff == should_force_cliff_face(tile_kind, nb[3], top_a, top_b,
                                               bottom_a, bottom_b)
    IN  add_side_face(buffer, top_a, top_b, bottom_a, bottom_b, direction, tile_layer,
                      Max(top_a[2], top_b[2]),
                      bottom_info(nb[4], bottom_a_y, bottom_b_y), force_cliff)

north_block(m, corner_cache, x, y, buffer, tile_layer, nw, ne) ==
    LET nb == neighbor_edge(m, corner_cache, y > 0, x, y - 1, CORNER_SW, CORNER_SE)
    IN  side_block(buffer, get(m, x, y).kind, nb, nw, ne,
                   Min(nb[1], nw[2]), Min(nb[2], ne[2]), "North", tile_layer)

south_block(m, corner_cache, x, y, buffer, tile_layer, se, sw) ==
    LET nb == neighbor_edge(m, corner_cache, y + 1 < m.height, x, y + 1, CORNER_NW, CORNER_NE)
    IN  side_block(buffer, get(m, x, y).kind, nb, se, sw,
                   Min(nb[2], se[2]), Min(nb[1], sw[2]), "South", tile_layer)

west_block(m, corner_cache, x, y, buffer, tile_layer, sw, nw) ==
    LET nb == neighbor_edge(m, corner_cache, x > 0, x - 1, y, CORNER_NE, CORNER_SE)
    IN  side_block(buffer, get(m, x, y).kind, nb, sw, nw,
                   Min(nb[2], sw[2]), Min(nb[1], nw[2]), "West", tile_layer)

\* Variant: the neighbour's heights are used without the clamp by min.
east_block_unclamped(m, corner_cache, x, y, buffer, tile_layer, ne, se) ==
    LET nb == neighbor_edge(m, corner_cache, x + 1 < m.width, x + 1, y, CORNER_NW, CORNER_SW)
    IN  side_block(buffer, get(m, x, y).kind, nb, ne, se, nb[1], nb[2], "East", tile_layer)

east_block(m, corner_cache, x, y, buffer, tile_layer, ne, se) ==
    LET nb == neighbor_edge(m, corner_cache, x + 1 < m.width, x + 1, y, CORNER_NW, CORNER_SW)
    IN  side_block(buffer, get(m, x, y).kind, nb, ne, se,
                   Min(nb[1], ne[2]), Min(nb[2], se[2]), "East", tile_layer)

append_tile_geometry(m, corner_cache, x, y, buffer, tile_layer) ==
    LET corners == cached(corner_cache, m, x, y)
        x0 == x * TILE_SIZE
        x1 == x0 + TILE_SIZE
        z0 == y * TILE_SIZE
        z1 == z0 + TILE_SIZE
        nw == Vec3(x0, At(corners, CORNER_NW), z0)
        ne == Vec3(x1, At(corners, CORNER_NE), z0)
        sw == Vec3(x0, At(corners, CORNER_SW), z1)
        se == Vec3(x1, At(corners, CORNER_SE), z1)
        top_height == max_corner_height(corners)
        top_color_info == IF tile_layer # None
                          THEN Some(tile_top_blend_mask(m, corner_cache, x, y, top_height))
                          ELSE None
        b0 == MeshBuffers_push_quad(buffer, <<nw, sw, se, ne>>, ZeroTex, tile_layer,
                                    top_height, top_color_info)
        b1 == north_block(m, corner_cache, x, y, b0, tile_layer, nw, ne)
        b2 == south_block(m, corner_cache, x, y, b1, tile_layer, se, sw)
        b3 == west_block(m, corner_cache, x, y, b2, tile_layer, sw, nw)
    IN  east_block(m, corner_cache, x, y, b3, tile_layer, ne, se)

\* The first loop of populate_mesh_buffers: tiles are visited row by row, so
\* the cache entry of index i is the tile (i mod width, i div width).
build_corner_cache(m) ==
    [i \in 1..(m.width * m.height) |->
        tile_corner_heights(m, (i - 1) % m.width, (i - 1) \div m.width)]

\* Variant: the entry is replaced by an empty buffer on every visit.
or_default_fresh(buffers, tile_type) == MeshBuffers_default

\* buffers.entry(tile_type).or_default()
or_default(buffers, tile_type) ==
    IF tile_type \in DOMAIN buffers THEN buffers[tile_type] ELSE MeshBuffers_default

\* The second loop, from tile index i on; per_type and combined are Options
\* of the accumulators, returned as a pair.
RECURSIVE populate_from(_, _, _, _, _)
populate_from(m, corner_cache, per_type, combined, i) ==
    IF i >= m.width * m.height THEN <<per_type, combined>>
    ELSE LET x == i % m.width
             y == i \div m.width
             tile_type == get(m, x, y).tile_type
             per_type1 ==
                 IF per_type = None THEN None
                 ELSE Some([t \in (DOMAIN per_type[1]) \cup {tile_type} |->
                              IF t = tile_type
                              THEN append_tile_geometry(m, corner_cache, x, y,
                                       or_default(per_type[1], tile_type), None)
                              ELSE per_type[1][t]])
             combined1 ==
                 IF combined = None THEN None
                 ELSE Some(append_tile_geometry(m, corner_cache, x, y, combined[1],
                                                Some(as_index(tile_type))))
         IN  populate_from(m, corner_cache, per_type1, combined1, i + 1)

populate_mesh_buffers(m, per_type, combined) ==
    IF m.width = 0 \/ m.height = 0 THEN <<per_type, combined>>
    ELSE populate_from(m, build_corner_cache(m), per_type, combined, 0)

\* VertexAttributeValues and Indices: the variant and the elements.
Float32x2(data) == [format |-> "Float32x2", data |-> data]

Float32x3(data) == [format |-> "Float32x3", data |-> data]

Float32x4(data) == [format |-> "Float32x4", data |-> data]

U16(data) == [format |-> "U16", data |-> data]

U32(data) == [format |-> "U32", data |-> data]

\* A Mesh: its attributes by name, and its indices when inserted.
empty_mesh == [attributes |-> <<>>, indices |-> None]

insert_indices(mesh, indices) == [mesh EXCEPT !.indices = Some(indices)]

insert_attribute(mesh, name, values) ==
    [mesh EXCEPT !.attributes =
        [n \in (DOMAIN mesh.attributes) \cup {name} |->
            IF n = name THEN values ELSE mesh.attributes[n]]]

into_mesh(b) ==
    LET m1 == insert_attribute(empty_mesh, "POSITION", Float32x3(b.positions))
        m2 == insert_attribute(m1, "NORMAL", Float32x3(b.normals))
        m3 == insert_attribute(m2, "UV_0", Float32x2(b.uvs))
        m4 == IF b.tile_layers # None /\ b.tile_layers[1] # <<>>
              THEN insert_attribute(m3, "UV_1", Float32x2(b.tile_layers[1])) ELSE m3
        m5 == IF b.colors # None /\ b.colors[1] # <<>>
              THEN insert_attribute(m4, "COLOR", Float32x4(b.colors[1])) ELSE m4
    IN  IF b.indices # <<>> THEN insert_indices(m5, U32(b.indices)) ELSE m5

build_map_meshes(m) ==
    LET buffers == populate_mesh_buffers(m, Some(<<>>), None)[1][1]
    IN  [t \in DOMAIN buffers |-> into_mesh(buffers[t])]

build_combined_mesh(m) ==
    into_mesh(populate_mesh_buffers(m, None, Some(with_tile_types))[2][1])

\* ---------------------------------------------------------------- terrain.rs: splatmap
CHANNELS == 4

\* Image::new_fill: the pixel repeated over the extent, with the defaults of
\* a new Image for the mip count, the usage and the sampler.
new_fill(extent, dimension, pixel, format) ==
    [texture_descriptor |->
        [size |-> extent, dimension |-> dimension, format |-> format,
         mip_level_count |-> 1, usage |-> {"TEXTURE_BINDING", "COPY_DST"}],
     sampler |-> "Default",
     data |-> [i \in 1..(extent.width * extent.height * extent.depth_or_array_layers
                           * Len(pixel)) |-> pixel[((i - 1) % Len(pixel)) + 1]]]

\* Variant: the dimensions are taken as they are.
extent_from_map_raw(m) ==
    [width |-> m.width, height |-> m.height, depth_or_array_layers |-> 1]

extent_from_map(m) ==
    [width |-> Max(m.width, 1), height |-> Max(m.height, 1), depth_or_array_layers |-> 1]

configure_image(img) ==
    [img EXCEPT !.texture_descriptor.mip_level_count = 1,
                !.texture_descriptor.usage = {"TEXTURE_BINDING", "COPY_DST"},
                !.sampler = "LinearClampToEdge"]

\* Vec::resize(new_len, 0)
resize(data, new_len) ==
    [i \in 1..new_len |-> IF i <= Len(data) THEN data[i] ELSE 0]

\* data.fill(0)
fill(data, value) == [i \in 1..Len(data) |-> value]

\* Variant: the pixel goes to the column-major offset.
write_pixel_transposed(m, data, width, x, y) ==
    LET layer == as_index(get(m, x, y).tile_type)
        pixel == [c \in 1..CHANNELS |-> IF layer < CHANNELS /\ c = layer + 1 THEN 255 ELSE 0]
        idx_ == (x * m.height + y) * CHANNELS
    IN  [i \in 1..Len(data) |->
            IF i > idx_ /\ i <= idx_ + CHANNELS THEN pixel[i - idx_] ELSE data[i]]

\* The body of the loops of write: the one-hot pixel of tile (x, y) is copied
\* to data[idx..idx + CHANNELS].
write_pixel(m, data, width, x, y) ==
    LET layer == as_index(get(m, x, y).tile_type)
        pixel == [c \in 1..CHANNELS |-> IF layer < CHANNELS /\ c = layer + 1 THEN 255 ELSE 0]
        idx_ == (y * width + x) * CHANNELS
    IN  [i \in 1..Len(data) |->
            IF i > idx_ /\ i <= idx_ + CHANNELS THEN pixel[i - idx_] ELSE data[i]]

\* The loops of write from tile number i on, row by row.
RECURSIVE write_pixels(_, _, _, _)
write_pixels(m, data, width, i) ==
    IF i >= m.width * m.height THEN data
    ELSE write_pixels(m, write_pixel(m, data, width, i % m.width, i \div m.width),
                      width, i + 1)

\* Variant: only the size is compared.
regenerate_size_only(m, img) == img.texture_descriptor.size # extent_from_map(m)

\* The test of write that sends it to create.
regenerate(m, img) ==
    \/ img.texture_descriptor.size # extent_from_map(m)
    \/ img.texture_descriptor.format # "Rgba8Unorm"

\* write when the target's size and format match: the update in place.
write_in_place(m, img) ==
    LET extent == extent_from_map(m)
        configured == configure_image(img)
        required_len == extent.width * extent.height * CHANNELS
        resized == IF Len(configured.data) # required_len
                   THEN resize(configured.data, required_len) ELSE configured.data
    IN  IF m.width = 0 \/ m.height = 0
        THEN [configured EXCEPT !.data = fill(resized, 0)]
        ELSE [configured EXCEPT !.data = write_pixels(m, resized, extent.width, 0)]

\* create and write call each other; creates counts the calls of create that
\* write has made on the way to its result.
RECURSIVE write_from(_, _, _)
create_from(m, creates) ==
    write_from(m, configure_image(new_fill(extent_from_map(m), "D2",
                                           [c \in 1..CHANNELS |-> 0], "Rgba8Unorm")),
               creates)

write_from(m, img, creates) ==
    IF regenerate(m, img) THEN create_from(m, creates + 1)
    ELSE [image |-> write_in_place(m, img), creates |-> creates]

create(m) == create_from(m, 0).image

write(m, img) == write_from(m, img, 0).image

\* ---------------------------------------------------------------- export.rs: bytes and JSON
VERTEX_BUFFER_TARGET == 34962

INDEX_BUFFER_TARGET == 34963

FLOAT_COMPONENT == 5126

UNSIGNED_INT_COMPONENT == 5125

\* A let statement: the value is computed once, then named in what follows.
let(value, rest(_)) == CHOOSE outcome \in {rest(bound) : bound \in {value}} : TRUE

\* Result<T>
Ok(v) == [ok |-> TRUE, value |-> v]

Err(msg) == [ok |-> FALSE, error |-> msg]

u32_to_le_bytes(n) ==
    <<n % 256, (n \div 256) % 256, (n \div 65536) % 256, (n \div 16777216) % 256>>

\* The UTF-8 bytes of the string literals of the exporter.
utf8(s) ==
    CASE s = "buffer" -> <<98, 117, 102, 102, 101, 114>>
      [] s = "byteLength" -> <<98, 121, 116, 101, 76, 101, 110, 103, 116, 104>>
      [] s = "byteOffset" -> <<98, 121, 116, 101, 79, 102, 102, 115, 101, 116>>
      [] s = "target" -> <<116, 97, 114, 103, 101, 116>>
      [] s = "bufferView" -> <<98, 117, 102, 102, 101, 114, 86, 105, 101, 119>>
      [] s = "componentType" -> <<99, 111, 109, 112, 111, 110, 101, 110, 116, 84, 121, 112, 101>>
      [] s = "count" -> <<99, 111, 117, 110, 116>>
      [] s = "type" -> <<116, 121, 112, 101>>
      [] s = "min" -> <<109, 105, 110>>
      [] s = "max" -> <<109, 97, 120>>
      [] s = "VEC2" -> <<86, 69, 67, 50>>
      [] s = "VEC3" -> <<86, 69, 67, 51>>
      [] s = "VEC4" -> <<86, 69, 67, 52>>
      [] s = "SCALAR" -> <<83, 67, 65, 76, 65, 82>>
      [] s = "POSITION" -> <<80, 79, 83, 73, 84, 73, 79, 78>>
      [] s = "NORMAL" -> <<78, 79, 82, 77, 65, 76>>
      [] s = "TEXCOORD_0" -> <<84, 69, 88, 67, 79, 79, 82, 68, 95, 48>>
      [] s = "TEXCOORD_1" -> <<84, 69, 88, 67, 79, 79, 82, 68, 95, 49>>
      [] s = "COLOR_0" -> <<67, 79, 76, 79, 82, 95, 48>>
      [] s = "attributes" -> <<97, 116, 116, 114, 105, 98, 117, 116, 101, 115>>
      [] s = "indices" -> <<105, 110, 100, 105, 99, 101, 115>>
      [] s = "mode" -> <<109, 111, 100, 101>>
      [] s = "asset" -> <<97, 115, 115, 101, 116>>
      [] s = "version" -> <<118, 101, 114, 115, 105, 111, 110>>
      [] s = "2.0" -> <<50, 46, 48>>
      [] s = "generator" -> <<103, 101, 110, 101, 114, 97, 116, 111, 114>>
      [] s = "tilemapedit3d exporter" -> <<116, 105, 108, 101, 109, 97, 112, 101, 100, 105, 116, 51, 100, 32, 101, 120, 112, 111, 114, 116, 101, 114>>
      [] s = "buffers" -> <<98, 117, 102, 102, 101, 114, 115>>
      [] s = "name" -> <<110, 97, 109, 101>>
      [] s = "TerrainBuffer" -> <<84, 101, 114, 114, 97, 105, 110, 66, 117, 102, 102, 101, 114>>
      [] s = "bufferViews" -> <<98, 117, 102, 102, 101, 114, 86, 105, 101, 119, 115>>
      [] s = "accessors" -> <<97, 99, 99, 101, 115, 115, 111, 114, 115>>
      [] s = "meshes" -> <<109, 101, 115, 104, 101, 115>>
      [] s = "Terrain" -> <<84, 101, 114, 114, 97, 105, 110>>
      [] s = "primitives" -> <<112, 114, 105, 109, 105, 116, 105, 118, 101, 115>>
      [] s = "nodes" -> <<110, 111, 100, 101, 115>>
      [] s = "mesh" -> <<109, 101, 115, 104>>
      [] s = "scenes" -> <<115, 99, 101, 110, 101, 115>>
      [] s = "scene" -> <<115, 99, 101, 110, 101>>

\* The keys of the JSON objects of the exporter in the order of serde_json's
\* Map, which keeps its keys sorted.
JsonKeys ==
    <<"COLOR_0", "NORMAL", "POSITION", "TEXCOORD_0", "TEXCOORD_1",
      "accessors", "asset", "attributes", "buffer", "bufferView",
      "bufferViews", "buffers", "byteLength", "byteOffset", "componentType",
      "count", "generator", "indices", "max", "mesh",
      "meshes", "min", "mode", "name", "nodes",
      "primitives", "scene", "scenes", "target", "type",
      "version">>

\* f32::to_le_bytes of the floats the meshes here are made of (in units of
\* 1e-4): -2.0, -1.0, -0.8, 0.0, 0.8, 1.0, 2.0, 3.0, 4.0.
f32_to_le_bytes(v) ==
    CASE v = -20000 -> <<0, 0, 0, 192>>
      [] v = -10000 -> <<0, 0, 128, 191>>
      [] v = -8000 -> <<205, 204, 76, 191>>
      [] v = 0 -> <<0, 0, 0, 0>>
      [] v = 8000 -> <<205, 204, 76, 63>>
      [] v = 10000 -> <<0, 0, 128, 63>>
      [] v = 20000 -> <<0, 0, 0, 64>>
      [] v = 30000 -> <<0, 0, 64, 64>>
      [] v = 40000 -> <<0, 0, 128, 64>>

\* The text serde_json writes for an f32, which it widens to f64: -2.0, -1.0, -0.800000011920929, 0.0, 0.800000011920929, 1.0, 2.0, 3.0, 4.0.
f32_to_json(v) ==
    CASE v = -20000 -> <<45, 50, 46, 48>>
      [] v = -10000 -> <<45, 49, 46, 48>>
      [] v = -8000 -> <<45, 48, 46, 56, 48, 48, 48, 48, 48, 48, 49, 49, 57, 50, 48, 57, 50, 57>>
      [] v = 0 -> <<48, 46, 48>>
      [] v = 8000 -> <<48, 46, 56, 48, 48, 48, 48, 48, 48, 49, 49, 57, 50, 48, 57, 50, 57>>
      [] v = 10000 -> <<49, 46, 48>>
      [] v = 20000 -> <<50, 46, 48>>
      [] v = 30000 -> <<51, 46, 48>>
      [] v = 40000 -> <<52, 46, 48>>

F32 == {-20000, -10000, -8000, 0, 8000, 10000, 20000, 30000, 40000}

\* serde_json::Value
json_number(n) == [t |-> "number", v |-> n]

json_f32(v) == [t |-> "f32", v |-> v]

json_string(s) == [t |-> "string", v |-> s]

json_array(items) == [t |-> "array", v |-> items]

\* An object is the sequence of its <<key, value>> entries in key order.
json_object(entries) == [t |-> "object", v |-> entries]

KeyRank(key) == CHOOSE i \in 1..Len(JsonKeys) : JsonKeys[i] = key

\* Map::insert: the entry replaces the one of the same key or goes to its
\* place in key order.
map_insert(object, key, value) ==
    let(object.v, LAMBDA entries :
        json_object(SelectSeq(entries, LAMBDA e : KeyRank(e[1]) < KeyRank(key))
                    \o <<<<key, value>>>>
                    \o SelectSeq(entries, LAMBDA e : KeyRank(e[1]) > KeyRank(key))))

\* The value of a key of an object, absent when the object has no such entry.
map_get(object, key) ==
    LET found == SelectSeq(object.v, LAMBDA e : e[1] = key)
    IN  IF found = <<>> THEN None ELSE Some(found[1][2])

RECURSIVE digits(_)
digits(n) == IF n < 10 THEN <<48 + n>> ELSE digits(n \div 10) \o <<48 + (n % 10)>>

\* serde_json::to_vec: compact text, entries separated by commas.
RECURSIVE to_vec(_)
RECURSIVE to_vec_items(_, _)
RECURSIVE to_vec_entries(_, _)
to_vec_items(items, i) ==
    IF i > Len(items) THEN <<>>
    ELSE (IF i > 1 THEN <<44>> ELSE <<>>) \o to_vec(items[i]) \o to_vec_items(items, i + 1)

to_vec_entries(entries, i) ==
    IF i > Len(entries) THEN <<>>
    ELSE (IF i > 1 THEN <<44>> ELSE <<>>)
         \o <<34>> \o utf8(entries[i][1]) \o <<34, 58>> \o to_vec(entries[i][2])
         \o to_vec_entries(entries, i + 1)

to_vec(value) ==
    CASE value.t = "number" -> digits(value.v)
      [] value.t = "f32" -> f32_to_json(value.v)
      [] value.t = "string" -> <<34>> \o utf8(value.v) \o <<34>>
      [] value.t = "array" -> <<91>> \o to_vec_items(value.v, 1) \o <<93>>
      [] value.t = "object" -> <<123>> \o to_vec_entries(value.v, 1) \o <<125>>

\* ---------------------------------------------------------------- export.rs: BufferWriter
BufferWriter_default == [data |-> <<>>, buffer_views |-> <<>>, accessors |-> <<>>]

\* Variant: nothing is added.
pad_to_four_none(bytes, pad) == bytes

RECURSIVE pad_to_four(_, _)
pad_to_four(bytes, pad) ==
    IF Len(bytes) % 4 # 0 THEN pad_to_four(Append(bytes, pad), pad) ELSE bytes

align(w) == [w EXCEPT !.data = pad_to_four(@, 0)]

\* bytemuck::cast_slice of an array of f32 tuples: the floats in order, each
\* as its four bytes, least significant first.
RECURSIVE cast_f32(_, _)
cast_f32(value, i) ==
    IF i > Len(value) THEN <<>> ELSE f32_to_le_bytes(value[i]) \o cast_f32(value, i + 1)

RECURSIVE cast_slice(_, _)
cast_slice(values, i) ==
    IF i > Len(values) THEN <<>> ELSE cast_f32(values[i], 1) \o cast_slice(values, i + 1)

RECURSIVE cast_slice_u32(_, _)
cast_slice_u32(values, i) ==
    IF i > Len(values) THEN <<>>
    ELSE u32_to_le_bytes(values[i]) \o cast_slice_u32(values, i + 1)

\* bounds_vec3 on a non-empty array: the fold of min and max from the
\* infinities gives the per-axis extremes of the values.
RECURSIVE bounds_from(_, _, _, _)
bounds_from(values, i, min, max) ==
    IF i > Len(values) THEN <<min, max>>
    ELSE bounds_from(values, i + 1,
                     [k \in 1..3 |-> Min(min[k], values[i][k])],
                     [k \in 1..3 |-> Max(max[k], values[i][k])])

\* Variant: the first value stands for both extremes.
bounds_vec3_first(values) == <<values[1], values[1]>>

bounds_vec3(values) == bounds_from(values, 2, values[1], values[1])

json_f32_array(value) == json_array([k \in 1..Len(value) |-> json_f32(value[k])])

\* Variant: the view of a push is written without its byte offset.
view_of_no_offset(byte_offset, byte_length, target) ==
    json_object(<<<<"buffer", json_number(0)>>,
                  <<"byteLength", json_number(byte_length)>>,
                  <<"target", json_number(target)>>>>)

\* The buffer view of a push; a zero byte offset is left out.
view_of(byte_offset, byte_length, target) ==
    LET v1 == map_insert(json_object(<<>>), "buffer", json_number(0))
        v2 == IF byte_offset # 0
              THEN map_insert(v1, "byteOffset", json_number(byte_offset)) ELSE v1
        v3 == map_insert(v2, "byteLength", json_number(byte_length))
    IN  map_insert(v3, "target", json_number(target))

accessor_of(view_index, component, count, type, bounds) ==
    LET a1 == map_insert(json_object(<<>>), "bufferView", json_number(view_index))
        a2 == map_insert(a1, "componentType", json_number(component))
        a3 == map_insert(a2, "count", json_number(count))
        a4 == map_insert(a3, "type", json_string(type))
    IN  IF bounds = None THEN a4
        ELSE map_insert(map_insert(a4, "min", json_f32_array(bounds[1][1])),
                        "max", json_f32_array(bounds[1][2]))

\* The part the four push methods share, after the test for an empty array:
\* align, append the bytes, push the view and the accessor, return the
\* accessor's index.
push_bytes(w, bytes, count, target, component, type, bounds) ==
    let(align(w), LAMBDA aligned :
        [writer |->
            [data |-> aligned.data \o bytes,
             buffer_views |-> Append(aligned.buffer_views,
                                     view_of(Len(aligned.data), Len(bytes), target)),
             accessors |-> Append(aligned.accessors,
                                  accessor_of(Len(aligned.buffer_views), component,
                                              count, type, bounds))],
         result |-> Ok(Len(aligned.accessors))])

push_vec3(w, values, include_bounds) ==
    IF values = <<>> THEN [writer |-> w, result |-> Err("Vector attribute cannot be empty")]
    ELSE push_bytes(w, cast_slice(values, 1), Len(values), VERTEX_BUFFER_TARGET,
                    FLOAT_COMPONENT, "VEC3",
                    IF include_bounds THEN Some(bounds_vec3(values)) ELSE None)

push_vec2(w, values) ==
    IF values = <<>> THEN [writer |-> w, result |-> Err("Vector attribute cannot be empty")]
    ELSE push_bytes(w, cast_slice(values, 1), Len(values), VERTEX_BUFFER_TARGET,
                    FLOAT_COMPONENT, "VEC2", None)

push_vec4(w, values) ==
    IF values = <<>> THEN [writer |-> w, result |-> Err("Vector attribute cannot be empty")]
    ELSE push_bytes(w, cast_slice(values, 1), Len(values), VERTEX_BUFFER_TARGET,
                    FLOAT_COMPONENT, "VEC4", None)

push_indices(w, values) ==
    IF values = <<>> THEN [writer |-> w, result |-> Err("Index buffer cannot be empty")]
    ELSE push_bytes(w, cast_slice_u32(values, 1), Len(values), INDEX_BUFFER_TARGET,
                    UNSIGNED_INT_COMPONENT, "SCALAR", None)

finish(w) == <<w.data, w.buffer_views, w.accessors>>

\* ---------------------------------------------------------------- export.rs: mesh_to_glb
\* Mesh::attribute
attribute(mesh, name) ==
    IF name \in DOMAIN mesh.attributes THEN Some(mesh.attributes[name]) ELSE None

\* extract_vec3 and extract_vec2: the attribute must be there, in the layout asked for.
extract_required(mesh, name, format, label) ==
    LET values == attribute(mesh, name)
    IN  IF values = None THEN Err(<<"Mesh missing attribute", label>>)
        ELSE IF values[1].format = format THEN Ok(values[1].data)
        ELSE Err(<<"Mesh attribute has unsupported format", label>>)

extract_vec3(mesh, name, label) == extract_required(mesh, name, "Float32x3", label)

extract_vec2(mesh, name, label) == extract_required(mesh, name, "Float32x2", label)

\* Variant: an optional channel is never taken from the mesh.
extract_optional_absent(mesh, name, format) == Ok(None)

\* extract_optional_vec2 and extract_optional_vec4: an absent attribute is
\* Ok(None), one in another layout is an error.
extract_optional(mesh, name, format) ==
    LET values == attribute(mesh, name)
    IN  IF values = None THEN Ok(None)
        ELSE IF values[1].format = format THEN Ok(Some(values[1].data))
        ELSE Err(<<"Mesh attribute has unsupported format">>)

extract_optional_vec2(mesh, name) == extract_optional(mesh, name, "Float32x2")

extract_optional_vec4(mesh, name) == extract_optional(mesh, name, "Float32x4")

\* Both index widths are accepted; u16 values become u32 values.
extract_indices(mesh) ==
    IF mesh.indices = None THEN Err(<<"Mesh is missing triangle indices">>)
    ELSE Ok(mesh.indices[1].data)

\* Variant: the count of an optional channel is not compared.
count_matches_any(channel, count) == TRUE

\* The ensure! on an optional channel: when present it has count elements.
count_matches(channel, count) == channel = None \/ Len(channel[1]) = count

\* The first part of mesh_to_glb: the six extractions and the four ensure!
\* tests, giving the arrays or the first error.
extract_all(mesh) ==
    LET positions == extract_vec3(mesh, "POSITION", "POSITION")
        normals == extract_vec3(mesh, "NORMAL", "NORMAL")
        texcoords == extract_vec2(mesh, "UV_0", "TEXCOORD_0")
        texcoords1 == extract_optional_vec2(mesh, "UV_1")
        colors == extract_optional_vec4(mesh, "COLOR")
        indices == extract_indices(mesh)
    IN  IF ~positions.ok THEN positions
        ELSE IF ~normals.ok THEN normals
        ELSE IF ~texcoords.ok THEN texcoords
        ELSE IF ~texcoords1.ok THEN texcoords1
        ELSE IF ~colors.ok THEN colors
        ELSE IF ~indices.ok THEN indices
        ELSE IF Len(positions.value) # Len(normals.value)
        THEN Err(<<"Mesh export requires matching position and normal counts">>)
        ELSE IF Len(positions.value) # Len(texcoords.value)
        THEN Err(<<"Mesh export requires matching position and UV counts">>)
        ELSE IF ~count_matches(texcoords1.value, Len(positions.value))
        THEN Err(<<"Secondary UV set must match vertex count">>)
        ELSE IF ~count_matches(colors.value, Len(positions.value))
        THEN Err(<<"Vertex color count must match vertices">>)
        ELSE Ok([positions |-> positions.value, normals |-> normals.value,
                 texcoords |-> texcoords.value, texcoords1 |-> texcoords1.value,
                 colors |-> colors.value, indices |-> indices.value])

\* option.map(|values| writer.push(values)).transpose(): nothing is pushed
\* for an absent channel.
push_optional(w, channel, pushed) ==
    IF channel = None THEN [writer |-> w, result |-> Ok(None)]
    ELSE let(pushed, LAMBDA outcome :
             [writer |-> outcome.writer,
              result |-> IF outcome.result.ok THEN Ok(Some(outcome.result.value))
                         ELSE outcome.result])

\* The second part: the pushes in order, giving the writer and the accessor
\* indices or the first error.
push_all(arrays) ==
    let(push_vec3(BufferWriter_default, arrays.positions, TRUE), LAMBDA position :
    IF ~position.result.ok THEN position.result ELSE
    let(push_vec3(position.writer, arrays.normals, FALSE), LAMBDA normal :
    IF ~normal.result.ok THEN normal.result ELSE
    let(push_vec2(normal.writer, arrays.texcoords), LAMBDA tex :
    IF ~tex.result.ok THEN tex.result ELSE
    let(push_optional(tex.writer, arrays.texcoords1,
                      push_vec2(tex.writer, unwrap_or(arrays.texcoords1, <<>>))), LAMBDA tex1 :
    IF ~tex1.result.ok THEN tex1.result ELSE
    let(push_optional(tex1.writer, arrays.colors,
                      push_vec4(tex1.writer, unwrap_or(arrays.colors, <<>>))), LAMBDA color :
    IF ~color.result.ok THEN color.result ELSE
    let(push_indices(color.writer, arrays.indices), LAMBDA index :
    IF ~index.result.ok THEN index.result ELSE
    Ok([writer |-> index.writer,
        position_accessor |-> position.result.value,
        normal_accessor |-> normal.result.value,
        tex_accessor |-> tex.result.value,
        tex1_accessor |-> tex1.result.value,
        color_accessor |-> color.result.value,
        index_accessor |-> index.result.value])))))))

\* json!({ ... }): the entries are inserted one by one.
RECURSIVE json_from(_, _, _)
json_from(object, entries, i) ==
    IF i > Len(entries) THEN object
    ELSE let(map_insert(object, entries[i][1], entries[i][2]), LAMBDA inserted :
             json_from(inserted, entries, i + 1))

json(entries) == let(entries, LAMBDA listed : json_from(json_object(<<>>), listed, 1))

\* The document of the container, built from what the pushes left.
root_of(pushed) ==
    LET a1 == json(<<<<"POSITION", json_number(pushed.position_accessor)>>,
                     <<"NORMAL", json_number(pushed.normal_accessor)>>,
                     <<"TEXCOORD_0", json_number(pushed.tex_accessor)>>>>)
        a2 == IF pushed.tex1_accessor # None
              THEN map_insert(a1, "TEXCOORD_1", json_number(pushed.tex1_accessor[1])) ELSE a1
        attributes == IF pushed.color_accessor # None
                      THEN map_insert(a2, "COLOR_0", json_number(pushed.color_accessor[1]))
                      ELSE a2
        primitive == json(<<<<"attributes", attributes>>,
                            <<"indices", json_number(pushed.index_accessor)>>,
                            <<"mode", json_number(4)>>>>)
        parts == finish(pushed.writer)
    IN  json(<<<<"asset", json(<<<<"version", json_string("2.0")>>,
                                 <<"generator", json_string("tilemapedit3d exporter")>>>>)>>,
               <<"buffers", json_array(<<json(<<<<"byteLength", json_number(Len(parts[1]))>>,
                                                <<"name", json_string("TerrainBuffer")>>>>)>>)>>,
               <<"bufferViews", json_array(parts[2])>>,
               <<"accessors", json_array(parts[3])>>,
               <<"meshes", json_array(<<json(<<<<"name", json_string("Terrain")>>,
                                               <<"primitives", json_array(<<primitive>>)>>>>)>>)>>,
               <<"nodes", json_array(<<json(<<<<"mesh", json_number(0)>>,
                                              <<"name", json_string("Terrain")>>>>)>>)>>,
               <<"scenes", json_array(<<json(<<<<"nodes", json_array(<<json_number(0)>>)>>>>)>>)>>,
               <<"scene", json_number(0)>>>>)

\* The last part: the padded chunks behind the 12-byte header.  The magic
\* 0x46546C67 is 1179937895, the chunk tags 0x4E4F534A and 0x004E4942 are
\* 1313821514 and 5130562.
container(root, data) ==
    let(pad_to_four(to_vec(root), 32), LAMBDA json_bytes :
    let(pad_to_four(data, 0), LAMBDA bin :
    let(12 + 8 + Len(json_bytes) + 8 + Len(bin), LAMBDA total_length :
        u32_to_le_bytes(1179937895) \o u32_to_le_bytes(2) \o u32_to_le_bytes(total_length)
        \o u32_to_le_bytes(Len(json_bytes)) \o u32_to_le_bytes(1313821514) \o json_bytes
        \o u32_to_le_bytes(Len(bin)) \o u32_to_le_bytes(5130562) \o bin)))

mesh_to_glb(mesh) ==
    let(extract_all(mesh), LAMBDA arrays :
    IF ~arrays.ok THEN arrays ELSE
    let(push_all(arrays.value), LAMBDA pushed :
    IF ~pushed.ok THEN pushed ELSE
    let(root_of(pushed.value), LAMBDA root :
        Ok(container(root, pushed.value.writer.data)))))

\* ---------------------------------------------------------------- io.rs
KEY == 170

\* The k-th binary digit of a byte.
bit(b, k) == (b \div (2 ^ k)) % 2

\* a ^ b on two bytes.
xor(a, b) ==
    bit(a, 0) + bit(b, 0) - 2 * bit(a, 0) * bit(b, 0)
    + 2 * (bit(a, 1) + bit(b, 1) - 2 * bit(a, 1) * bit(b, 1))
    + 4 * (bit(a, 2) + bit(b, 2) - 2 * bit(a, 2) * bit(b, 2))
    + 8 * (bit(a, 3) + bit(b, 3) - 2 * bit(a, 3) * bit(b, 3))
    + 16 * (bit(a, 4) + bit(b, 4) - 2 * bit(a, 4) * bit(b, 4))
    + 32 * (bit(a, 5) + bit(b, 5) - 2 * bit(a, 5) * bit(b, 5))
    + 64 * (bit(a, 6) + bit(b, 6) - 2 * bit(a, 6) * bit(b, 6))
    + 128 * (bit(a, 7) + bit(b, 7) - 2 * bit(a, 7) * bit(b, 7))

obfuscate(data) == [i \in 1..Len(data) |-> xor(data[i], KEY)]

\* The variants of the derived Encode/Decode enums, in declaration order.
TileKind_variants == <<"Floor", "Ramp">>

TileType_variants == <<"Grass", "Dirt", "Sand", "Rock">>

variant_index(variants, v) == (CHOOSE i \in 1..Len(variants) : variants[i] = v) - 1

\* bincode's standard configuration: little endian, variable-width integers.
\* An unsigned integer below 251 is one byte; 251 and 252 announce a u16 and
\* a u32 in little-endian bytes.
varint_encode_u32(n) ==
    IF n < 251 THEN <<n>>
    ELSE IF n < 65536 THEN <<251, n % 256, n \div 256>>
    ELSE <<252>> \o u32_to_le_bytes(n)

\* i8 is written as its one two's-complement byte.
encode_i8(e) == IF e < 0 THEN <<e + 256>> ELSE <<e>>

encode_option_direction(d) ==
    IF d = None THEN <<0>> ELSE <<1>> \o varint_encode_u32(variant_index(ALL, d[1]))

\* Tile's derived Encode: the fields in declaration order.
encode_tile(t) ==
    varint_encode_u32(variant_index(TileKind_variants, t.kind))
    \o varint_encode_u32(variant_index(TileType_variants, t.tile_type))
    \o varint_encode_u32(t.x)
    \o varint_encode_u32(t.y)
    \o encode_i8(t.elevation)
    \o encode_option_direction(t.ramp_direction)

RECURSIVE encode_tiles(_, _)
encode_tiles(tiles, i) ==
    IF i > Len(tiles) THEN <<>> ELSE encode_tile(tiles[i]) \o encode_tiles(tiles, i + 1)

\* TileMap's derived Encode: width, height, then the Vec as its length and
\* its elements.
encode_to_vec(m) ==
    Ok(varint_encode_u32(m.width) \o varint_encode_u32(m.height)
       \o varint_encode_u32(Len(m.tiles)) \o encode_tiles(m.tiles, 1))

\* A decoder reads at a position and returns the value and the next position.
Decoded(v, next) == Ok([value |-> v, next |-> next])

decode_u8(bytes, at) ==
    IF at >= Len(bytes) THEN Err("UnexpectedEnd") ELSE Decoded(bytes[at + 1], at + 1)

\* Variant: a one-byte integer is read as one less than it is.
varint_decode_u32_short(bytes, at) ==
    IF at >= Len(bytes) THEN Err("UnexpectedEnd")
    ELSE IF bytes[at + 1] < 251 THEN Decoded(IF bytes[at + 1] > 0 THEN bytes[at + 1] - 1 ELSE 0, at + 1)
    ELSE Err("InvalidIntegerType")

varint_decode_u32(bytes, at) ==
    IF at >= Len(bytes) THEN Err("UnexpectedEnd")
    ELSE IF bytes[at + 1] < 251 THEN Decoded(bytes[at + 1], at + 1)
    ELSE IF bytes[at + 1] = 251
    THEN IF at + 3 > Len(bytes) THEN Err("UnexpectedEnd")
         ELSE Decoded(bytes[at + 2] + 256 * bytes[at + 3], at + 3)
    ELSE IF bytes[at + 1] = 252
    THEN IF at + 5 > Len(bytes) THEN Err("UnexpectedEnd")
         ELSE IF bytes[at + 5] >= 128 THEN Err("beyond the integers of the model")
         ELSE Decoded(bytes[at + 2] + 256 * bytes[at + 3] + 65536 * bytes[at + 4]
                      + 16777216 * bytes[at + 5], at + 5)
    ELSE Err("InvalidIntegerType")

decode_variant(variants, bytes, at) ==
    let(varint_decode_u32(bytes, at), LAMBDA index :
    IF ~index.ok THEN index
    ELSE IF index.value.value >= Len(variants) THEN Err("UnexpectedVariant")
    ELSE Decoded(variants[index.value.value + 1], index.value.next))

decode_i8(bytes, at) ==
    let(decode_u8(bytes, at), LAMBDA byte :
    IF ~byte.ok THEN byte
    ELSE Decoded(IF byte.value.value >= 128 THEN byte.value.value - 256 ELSE byte.value.value,
                 byte.value.next))

decode_option_direction(bytes, at) ==
    let(decode_u8(bytes, at), LAMBDA tag :
    IF ~tag.ok THEN tag
    ELSE IF tag.value.value = 0 THEN Decoded(None, tag.value.next)
    ELSE IF tag.value.value = 1
    THEN let(decode_variant(ALL, bytes, tag.value.next), LAMBDA dir :
         IF ~dir.ok THEN dir ELSE Decoded(Some(dir.value.value), dir.value.next))
    ELSE Err("UnexpectedVariant"))

\* Tile's derived Decode: the fields in declaration order, the first error ends it.
decode_tile(bytes, at) ==
    let(decode_variant(TileKind_variants, bytes, at), LAMBDA kind :
    IF ~kind.ok THEN kind ELSE
    let(decode_variant(TileType_variants, bytes, kind.value.next), LAMBDA tile_type :
    IF ~tile_type.ok THEN tile_type ELSE
    let(varint_decode_u32(bytes, tile_type.value.next), LAMBDA x :
    IF ~x.ok THEN x ELSE
    let(varint_decode_u32(bytes, x.value.next), LAMBDA y :
    IF ~y.ok THEN y ELSE
    let(decode_i8(bytes, y.value.next), LAMBDA elevation :
    IF ~elevation.ok THEN elevation ELSE
    let(decode_option_direction(bytes, elevation.value.next), LAMBDA ramp_direction :
    IF ~ramp_direction.ok THEN ramp_direction
    ELSE Decoded(Tile(kind.value.value, tile_type.value.value, x.value.value, y.value.value,
                      elevation.value.value, ramp_direction.value.value),
                 ramp_direction.value.next)))))))

\* Vec<Tile>'s Decode: len elements one after the other.
RECURSIVE decode_tiles(_, _, _, _)
decode_tiles(bytes, at, len, tiles) ==
    IF Len(tiles) = len THEN Decoded(tiles, at)
    ELSE let(decode_tile(bytes, at), LAMBDA tile :
         IF ~tile.ok THEN tile
         ELSE decode_tiles(bytes, tile.value.next, len, Append(tiles, tile.value.value)))

\* decode_from_slice::<TileMap>: the grid and the number of bytes read; bytes
\* after the grid are not an error.
decode_from_slice(bytes) ==
    let(varint_decode_u32(bytes, 0), LAMBDA width :
    IF ~width.ok THEN width ELSE
    let(varint_decode_u32(bytes, width.value.next), LAMBDA height :
    IF ~height.ok THEN height ELSE
    let(varint_decode_u32(bytes, height.value.next), LAMBDA len :
    IF ~len.ok THEN len ELSE
    let(decode_tiles(bytes, len.value.next, len.value.value, <<>>), LAMBDA tiles :
    IF ~tiles.ok THEN tiles
    ELSE Ok(<<[width |-> width.value.value, height |-> height.value.value,
               tiles |-> tiles.value.value], tiles.value.next>>)))))

\* std::fs::write and std::fs::read on the files of the disk.
fs_write(files, path, bytes) ==
    [p \in DOMAIN files \cup {path} |-> IF p = path THEN bytes ELSE files[p]]

fs_read(files, path) == IF path \in DOMAIN files THEN Ok(files[path]) ELSE Err("No such file")

\* save_map up to the write: the bytes handed to std::fs::write.
save_map_bytes(m) ==
    let(encode_to_vec(m), LAMBDA bytes :
    IF ~bytes.ok THEN bytes ELSE Ok(obfuscate(bytes.value)))

\* What std::fs::write does: the whole file, or an error that leaves the
\* disk as it was or the file created and empty.
WriteOutcomes == {"all", "nothing", "truncated"}

\* save_map: the files it leaves and the value it returns.
save_map(files, path, m, written) ==
    let(save_map_bytes(m), LAMBDA bytes :
    IF ~bytes.ok THEN [files |-> files, value |-> bytes]
    ELSE IF written = "all"
    THEN [files |-> fs_write(files, path, bytes.value), value |-> Ok(<<>>)]
    ELSE IF written = "nothing" THEN [files |-> files, value |-> Err("write failed")]
    ELSE [files |-> fs_write(files, path, <<>>), value |-> Err("write failed")])

load_map(files, path) ==
    let(fs_read(files, path), LAMBDA bytes :
    IF ~bytes.ok THEN bytes ELSE
    let(decode_from_slice(obfuscate(bytes.value)), LAMBDA decoded :
    IF ~decoded.ok THEN decoded ELSE Ok(decoded.value[1])))

\* ---------------------------------------------------------------- export.rs: export_package
\* A path is its parent directories and its file name with the extension apart.
PathOf(parent, stem, extension) == [parent |-> parent, stem |-> stem, extension |-> extension]

\* The directory and every directory above it.
ancestors(dir) == {SubSeq(dir, 1, n) : n \in 1..Len(dir)}

\* std::fs::create_dir_all: the directory and its missing parents, or an error.
create_dir_all(d, dir, permitted) ==
    IF permitted THEN Ok([d EXCEPT !.dirs = d.dirs \cup ancestors(dir)])
    ELSE Err(<<"Failed to create export directory", dir>>)

\* An archive being written: the entries so far, and whether finish() has
\* written the central directory.
Archive(entries, finished) == [entries |-> entries, finished |-> finished]

\* File::create: an empty file in an existing directory, replacing what was there.
File_create(d, path, permitted) ==
    IF permitted /\ (path.parent = <<>> \/ path.parent \in d.dirs)
    THEN Ok([d EXCEPT !.files = fs_write(d.files, path, Archive(<<>>, FALSE))])
    ELSE Err(<<"Failed to create export file", path>>)

AsciiAlphanumeric ==
    {"a", "b", "c", "d", "e", "f", "g", "h", "i", "j", "k", "l", "m", "n", "o", "p", "q", "r",
     "s", "t", "u", "v", "w", "x", "y", "z", "A", "B", "C", "D", "E", "F", "G", "H", "I", "J",
     "K", "L", "M", "N", "O", "P", "Q", "R", "S", "T", "U", "V", "W", "X", "Y", "Z", "0", "1",
     "2", "3", "4", "5", "6", "7", "8", "9"}

\* An identifier is its characters one by one.
validate_identifier(identifier) ==
    IF \A i \in 1..Len(identifier) : identifier[i] \in AsciiAlphanumeric \cup {"_", "-"}
    THEN Ok(<<>>)
    ELSE Err(<<"Texture identifier contains unsupported characters">>)

\* "textures/{id}_{kind}" and the source's extension when it has one.
texture_target_path(id, kind, source) ==
    [directory |-> "textures/", id |-> id, kind |-> kind, extension |-> source.extension]

\* The files gathered so far with one more, and the path it will have in the archive.
ingest_texture_file(fs, identifier, kind, source, files) ==
    let(fs_read(fs, source.source_path), LAMBDA bytes :
    IF ~bytes.ok THEN Err(<<"Failed to read texture", kind, identifier>>)
    ELSE Ok([files |-> Append(files, <<texture_target_path(identifier, kind, source.source_path),
                                       bytes.value>>),
             path |-> texture_target_path(identifier, kind, source.source_path)]))

ingest_optional_texture_file(fs, identifier, kind, source, files) ==
    IF source = None THEN Ok([files |-> files, path |-> None])
    ELSE let(ingest_texture_file(fs, identifier, kind, source[1], files), LAMBDA ingested :
         IF ~ingested.ok THEN ingested
         ELSE Ok([files |-> ingested.value.files, path |-> Some(ingested.value.path)]))

\* The body both loops of build_metadata_and_files share: the identifier is
\* validated, then the diffuse, normal and roughness files are read in turn.
ingest_descriptor(fs, descriptor, files) ==
    let(validate_identifier(descriptor.identifier), LAMBDA valid :
    IF ~valid.ok THEN valid ELSE
    let(ingest_texture_file(fs, descriptor.identifier, "diffuse", descriptor.diffuse, files), LAMBDA diffuse :
    IF ~diffuse.ok THEN diffuse ELSE
    let(ingest_optional_texture_file(fs, descriptor.identifier, "normal", descriptor.normal,
                                     diffuse.value.files), LAMBDA normal :
    IF ~normal.ok THEN normal ELSE
    let(ingest_optional_texture_file(fs, descriptor.identifier, "roughness", descriptor.roughness,
                                     normal.value.files), LAMBDA roughness :
    IF ~roughness.ok THEN roughness
    ELSE Ok([files |-> roughness.value.files,
             entry |-> [id |-> descriptor.identifier, diffuse |-> diffuse.value.path,
                        normal |-> normal.value.path, roughness |-> roughness.value.path]])))))

RECURSIVE ingest_textures(_, _, _, _, _)
ingest_textures(fs, textures, i, metadata, files) ==
    IF i > Len(textures) THEN Ok([metadata |-> metadata, files |-> files])
    ELSE let(ingest_descriptor(fs, textures[i], files), LAMBDA ingested :
         IF ~ingested.ok THEN ingested
         ELSE ingest_textures(fs, textures, i + 1,
                  Append(metadata, [id |-> ingested.value.entry.id,
                                    diffuse |-> ingested.value.entry.diffuse,
                                    normal |-> ingested.value.entry.normal,
                                    roughness |-> ingested.value.entry.roughness,
                                    splatmap_channel |-> as_index(textures[i].tile_type)]),
                  ingested.value.files))

build_metadata_and_files(fs, textures, wall_texture) ==
    let(ingest_textures(fs, textures, 1, <<>>, <<>>), LAMBDA listed :
    IF ~listed.ok THEN listed
    ELSE IF wall_texture = None
    THEN Ok([metadata |-> listed.value.metadata, files |-> listed.value.files,
             wall_metadata |-> None])
    ELSE let(ingest_descriptor(fs, wall_texture[1], listed.value.files), LAMBDA wall :
         IF ~wall.ok THEN wall
         ELSE Ok([metadata |-> listed.value.metadata, files |-> wall.value.files,
                  wall_metadata |-> Some(wall.value.entry)])))

\* mesh_to_glb on a mesh of the builder: the error of the extractions and
\* tests, the error of a push of an empty array, or the container. The bytes
\* of a built mesh are kept as what they are the bytes of.
glb_of_built_mesh(mesh) ==
    let(extract_all(mesh), LAMBDA arrays :
    IF ~arrays.ok THEN arrays
    ELSE IF arrays.value.positions = <<>> THEN Err(<<"Vector attribute cannot be empty">>)
    ELSE IF arrays.value.indices = <<>> THEN Err(<<"Index buffer cannot be empty">>)
    ELSE Ok([glb_of |-> arrays.value]))

\* serde_json::to_vec_pretty on a value that serialises without error.
to_vec_pretty(value) == Ok([json_of |-> value])

\* The archive's entries in the order export_package writes them: a
\* start_file and write_all pair each, add_directory for "textures/".
zip_entries(tilemap_json, mesh_bytes, splat_png, metadata_json, texture_files) ==
    <<[name |-> "tilemap.json", bytes |-> tilemap_json],
      [name |-> "mesh.glb", bytes |-> mesh_bytes],
      [name |-> "splatmap.png", bytes |-> splat_png],
      [name |-> "metadata.json", bytes |-> metadata_json]>>
    \o (IF texture_files # <<>> THEN <<[name |-> "textures/", bytes |-> <<>>]>> ELSE <<>>)
    \o [i \in 1..Len(texture_files) |-> [name |-> texture_files[i][1], bytes |-> texture_files[i][2]]]

\* The writes into the created file: step k of them fails, the last step
\* being finish(), or none does. What was written before a failure stays.
zip_write(d, path, entries, failing) ==
    IF failing # None /\ failing[1] <= Len(entries) + 1
    THEN [disk |-> [d EXCEPT !.files = fs_write(d.files, path,
                                           Archive(SubSeq(entries, 1, failing[1] - 1), FALSE))],
          value |-> Err(<<"archive write failed at step", failing[1]>>)]
    ELSE [disk |-> [d EXCEPT !.files = fs_write(d.files, path, Archive(entries, TRUE))],
          value |-> Ok(<<>>)]

\* export_package: the disk it leaves and the value it returns. faults says
\* which operations of the file system are refused.
export_package(d, output_path, m, map_name, textures, wall_texture, splat_png, faults) ==
    let(IF output_path.parent # <<>>
        THEN create_dir_all(d, output_path.parent, faults.create_dir_all) ELSE Ok(d), LAMBDA made :
    IF ~made.ok THEN [disk |-> d, value |-> made] ELSE
    let(glb_of_built_mesh(build_combined_mesh(m)), LAMBDA mesh_bytes :
    IF ~mesh_bytes.ok THEN [disk |-> made.value, value |-> mesh_bytes] ELSE
    let(to_vec_pretty(m), LAMBDA tilemap_json :
    IF ~tilemap_json.ok THEN [disk |-> made.value, value |-> tilemap_json] ELSE
    let(build_metadata_and_files(made.value.files, textures, wall_texture), LAMBDA built :
    IF ~built.ok THEN [disk |-> made.value, value |-> built] ELSE
    let(to_vec_pretty([name |-> map_name, width |-> m.width, height |-> m.height,
                       tile_size |-> TILE_SIZE, textures |-> built.value.metadata,
                       splatmap |-> "splatmap.png", mesh |-> "mesh.glb",
                       tilemap |-> Some("tilemap.json"),
                       wall_texture |-> built.value.wall_metadata]), LAMBDA metadata_json :
    IF ~metadata_json.ok THEN [disk |-> made.value, value |-> metadata_json] ELSE
    let(File_create(made.value, output_path, faults.create), LAMBDA file :
    IF ~file.ok THEN [disk |-> made.value, value |-> file] ELSE
    zip_write(file.value, output_path,
              zip_entries(tilemap_json.value, mesh_bytes.value, splat_png, metadata_json.value,
                          built.value.files),
              faults.failing)))))))

\* ---------------------------------------------------------------- state machine
Elevations == (0 - ElevRange)..ElevRange

OptionDirection == {None} \cup {Some(d) : d \in RampDirection}

\* The surface type the edits paint with; untouched tiles keep the default Grass.
PaintTypes == {"Rock"}

NoCall == [call |-> "none"]

\* Nothing has been written to the file system, no editor is running.
NoDisk == [dirs |-> {}, files |-> <<>>]

NoEditor == [running |-> FALSE]

NoFrame == [number |-> 0]

NoMeshes == [runtime |-> None]

\* No raster has been made yet.
NoImage == [texture_descriptor |-> None]

Init ==
    /\ \E w \in 0..MaxWidth, h \in 0..MaxHeight : map = new(w, h)
    /\ edits = 0
    /\ result = NoCall
    /\ mesh_buffers = MeshBuffers_default
    /\ image = NoImage
    /\ writer = BufferWriter_default
    /\ pushes = <<>>
    /\ disk = NoDisk
    /\ state = NoEditor
    /\ frame = NoFrame
    /\ mesh_assets = NoMeshes

\* Each grid is handed to one call at a time: a call is made when no value
\* returned for the current grid is held, and an edit drops the held value.

\* TileMap::set with an in-range coordinate, as paint_tiles and rotate_ramps
\* call it; values returned by earlier calls on the old grid are dropped.
Set(x, y, t) ==
    /\ edits < MaxEdits
    /\ x < map.width /\ y < map.height
    /\ map' = set(map, x, y, t)
    /\ edits' = edits + 1
    /\ result' = NoCall
    /\ UNCHANGED offGrid

\* tile_corner_heights(&map, x, y), as draw_hover_highlight calls it.
TileCornerHeights(x, y) ==
    /\ result = NoCall
    /\ x < map.width /\ y < map.height
    /\ result' = [call |-> "tile_corner_heights", x |-> x, y |-> y,
                  value |-> tile_corner_heights(map, x, y)]
    /\ UNCHANGED <<map, edits>>
    /\ UNCHANGED offGrid

\* build_combined_mesh(&map), as rebuild_runtime_mesh and export_package call it.
BuildCombinedMesh ==
    /\ result = NoCall
    /\ result' = [call |-> "build_combined_mesh", value |-> build_combined_mesh(map)]
    /\ UNCHANGED <<map, edits>>
    /\ UNCHANGED offGrid

\* build_map_meshes(&map), as rebuild_terrain_mesh calls it.
BuildMapMeshes ==
    /\ result = NoCall
    /\ result' = [call |-> "build_map_meshes", value |-> build_map_meshes(map)]
    /\ UNCHANGED <<map, edits>>
    /\ UNCHANGED offGrid

SetAny ==
    \E x \in 0..(MaxWidth - 1), y \in 0..(MaxHeight - 1), k \in TileKind,
       tt \in PaintTypes, e \in Elevations, d \in OptionDirection :
       Set(x, y, Tile(k, tt, x, y, e, d))

ResolverNext ==
    \/ SetAny
    \/ \E x \in 0..(MaxWidth - 1), y \in 0..(MaxHeight - 1) : TileCornerHeights(x, y)

MeshNext ==
    \/ SetAny
    \/ BuildCombinedMesh
    \/ BuildMapMeshes

\* The process has ended in a panic.
Aborted == result.call \in {"TileMap::get", "TileMap::set"} /\ result.outcome.panicked

\* map.get(x, y) at any coordinate.
TileMapGet(x, y) ==
    /\ result = NoCall
    /\ result' = [call |-> "TileMap::get", x |-> x, y |-> y, before |-> map,
                  outcome |-> TileMap_get(map, x, y)]
    /\ UNCHANGED <<map, edits>>
    /\ UNCHANGED offGrid

\* map.set(x, y, t) at any coordinate; a panic leaves the grid as it was.
TileMapSet(x, y, t) ==
    /\ result = NoCall
    /\ edits < MaxEdits
    /\ map' = IF TileMap_set(map, x, y, t).panicked THEN map ELSE TileMap_set(map, x, y, t).value
    /\ edits' = edits + 1
    /\ result' = [call |-> "TileMap::set", x |-> x, y |-> y, t |-> t, before |-> map,
                  outcome |-> IF TileMap_set(map, x, y, t).panicked THEN Panicked
                              ELSE Returned(<<>>)]
    /\ UNCHANGED offGrid

TileMapNext ==
    \/ ~Aborted /\ SetAny
    \/ \E x \in 0..MaxWidth, y \in 0..MaxHeight : TileMapGet(x, y)
    \/ \E x \in 0..MaxWidth, y \in 0..MaxHeight, k \in TileKind, e \in Elevations :
          TileMapSet(x, y, Tile(k, "Rock", x, y, e, None))

Next == ResolverNext \/ MeshNext \/ TileMapNext

\* The grid under get and set at coordinates in and out of range.
TileMapSpec == Init /\ [][TileMapNext]_vars

\* The grid under edits and calls of the resolver.
ResolverSpec == Init /\ [][ResolverNext]_vars

\* The grid under edits and calls of the two mesh builders.
MeshSpec == Init /\ [][MeshNext]_vars

\* ---------------------------------------------------------------- state machine: a MeshBuffers under calls
\* Top quads [nw, sw, se, ne] as append_tile_geometry passes them: a flat
\* tile and a tile sloping down to the east.
QuadVerts ==
    {<<Vec3(0, 0, 0), Vec3(0, 0, TILE_SIZE), Vec3(TILE_SIZE, 0, TILE_SIZE), Vec3(TILE_SIZE, 0, 0)>>,
     <<Vec3(TILE_SIZE, TILE_HEIGHT, 0), Vec3(TILE_SIZE, TILE_HEIGHT, TILE_SIZE),
       Vec3(2 * TILE_SIZE, 0, TILE_SIZE), Vec3(2 * TILE_SIZE, 0, 0)>>}

OptionLayer == {None, Some(3)}

OptionColor == {None, Some(<<0, 0, 0, 0>>)}

SideHeights == {0, TILE_HEIGHT}

BufferInit ==
    /\ map = new(0, 0)
    /\ edits = 0
    /\ result = NoCall
    /\ mesh_buffers \in {MeshBuffers_default, with_tile_types}
    /\ image = NoImage
    /\ writer = BufferWriter_default
    /\ pushes = <<>>
    /\ disk = NoDisk
    /\ state = NoEditor
    /\ frame = NoFrame
    /\ mesh_assets = NoMeshes

\* MeshBuffers::push_quad
PushQuad(verts, tile_layer, seam_height, bottom_layer) ==
    /\ mesh_buffers.next_index < 6 * MaxQuads
    /\ mesh_buffers' = MeshBuffers_push_quad(mesh_buffers, verts, ZeroTex, tile_layer, seam_height,
                                       bottom_layer)
    /\ UNCHANGED offBuffer

\* MeshBuffers::add_side_face on the north edge of the tile at the origin.
AddSideFace(top_a_y, top_b_y, bottom_a_y, bottom_b_y, tile_layer, bottom_info_, force_cliff) ==
    /\ mesh_buffers.next_index < 6 * MaxQuads
    /\ mesh_buffers' = add_side_face(mesh_buffers, Vec3(0, top_a_y, 0), Vec3(TILE_SIZE, top_b_y, 0),
                               Vec3(0, bottom_a_y, 0), Vec3(TILE_SIZE, bottom_b_y, 0),
                               "North", tile_layer, Max(top_a_y, top_b_y), bottom_info_,
                               force_cliff)
    /\ UNCHANGED offBuffer

BufferNext ==
    \/ \E verts \in QuadVerts, tile_layer \in OptionLayer, bottom_layer \in OptionColor :
          PushQuad(verts, tile_layer, TILE_HEIGHT, bottom_layer)
    \/ \E top_b_y \in SideHeights, bottom_a_y \in SideHeights, tile_layer \in OptionLayer,
          bottom_info_ \in OptionColor, force_cliff \in BOOLEAN :
          AddSideFace(TILE_HEIGHT, top_b_y, bottom_a_y, 0, tile_layer, bottom_info_, force_cliff)

\* A MeshBuffers, with or without the layer and colour channels, under any
\* sequence of push_quad and add_side_face calls.
BufferSpec == BufferInit /\ [][BufferNext]_vars

\* ---------------------------------------------------------------- state machine: the weight-map raster
\* Rasters the asset store may hold when write is called: of another size,
\* format, depth or texture dimension, and with a data length that does not
\* fit the size.
Raster(w, h, layers, dimension, format, data) ==
    [texture_descriptor |->
        [size |-> [width |-> w, height |-> h, depth_or_array_layers |-> layers],
         dimension |-> dimension, format |-> format, mip_level_count |-> 3,
         usage |-> {"COPY_SRC"}],
     sampler |-> "Default",
     data |-> data]

PriorImages ==
    {Raster(1, 1, 1, "D2", "Rgba8Unorm", <<255, 255, 255, 255>>),
     Raster(2, 1, 1, "D3", "Rgba8Unorm", <<7, 7, 7, 7, 7, 7, 7, 7>>),
     Raster(2, 2, 1, "D2", "Rgba8Unorm", <<9, 9, 9, 9>>),
     Raster(1, 2, 1, "D2", "Rgba8Unorm", <<5, 5, 5, 5, 5, 5, 5, 5, 5, 5, 5, 5>>),
     Raster(2, 1, 1, "D2", "Bgra8Unorm", <<7, 7, 7, 7, 7, 7, 7, 7>>),
     Raster(1, 1, 2, "D2", "Rgba8Unorm", <<0, 0, 0, 0, 0, 0, 0, 0>>)}

SplatInit ==
    /\ \E w \in 0..MaxWidth, h \in 0..MaxHeight : map = new(w, h)
    /\ edits = 0
    /\ result = NoCall
    /\ mesh_buffers = MeshBuffers_default
    /\ image \in PriorImages
    /\ writer = BufferWriter_default
    /\ pushes = <<>>
    /\ disk = NoDisk
    /\ state = NoEditor
    /\ frame = NoFrame
    /\ mesh_assets = NoMeshes

\* paint_tiles with any current texture.
Paint ==
    \E x \in 0..(MaxWidth - 1), y \in 0..(MaxHeight - 1), tt \in TileType :
       Set(x, y, Tile("Floor", tt, x, y, 0, None))

\* state.map = m after a load: the grid is replaced by one of other dimensions.
LoadMap(w, h) ==
    /\ edits < MaxEdits
    /\ map' = new(w, h)
    /\ edits' = edits + 1
    /\ result' = NoCall
    /\ UNCHANGED offGrid

\* splatmap::create(&state.map), the raster being stored as setup_runtime_mesh does.
SplatCreate ==
    /\ result = NoCall
    /\ image' = create(map)
    /\ result' = [call |-> "splatmap::create"]
    /\ UNCHANGED <<map, edits>>
    /\ UNCHANGED offSplat

\* splatmap::write(&state.map, image) on the stored raster.
SplatWrite ==
    /\ result = NoCall
    /\ image' = write(map, image)
    /\ result' = [call |-> "splatmap::write", target |-> image,
                  creates |-> write_from(map, image, 0).creates]
    /\ UNCHANGED <<map, edits>>
    /\ UNCHANGED offSplat

SplatNext ==
    \/ Paint
    \/ \E w \in 0..MaxWidth, h \in 0..MaxHeight : LoadMap(w, h)
    \/ SplatCreate
    \/ SplatWrite

\* The grid under edits and loads, and the raster under create and write.
SplatSpec == SplatInit /\ [][SplatNext]_vars

\* ---------------------------------------------------------------- state machine: a BufferWriter under pushes
Vec3Arrays == {<<>>, <<Vec3(0, 0, 0)>>, <<Vec3(0, TILE_HEIGHT, 0), Vec3(TILE_SIZE, 0, TILE_SIZE)>>}

Vec2Arrays == {<<>>, <<<<0, 0>>>>}

Vec4Arrays == {<<>>, <<<<-20000, 0, 0, 0>>>>}

IndexArrays == {<<>>, <<0>>, <<0, 1, 2>>}

WriterInit ==
    /\ map = new(0, 0)
    /\ edits = 0
    /\ result = NoCall
    /\ mesh_buffers = MeshBuffers_default
    /\ image = NoImage
    /\ writer = BufferWriter_default
    /\ pushes = <<>>
    /\ disk = NoDisk
    /\ state = NoEditor
    /\ frame = NoFrame
    /\ mesh_assets = NoMeshes

\* A push method was called with values and gave outcome: the writer is as
\* the method left it and the caller holds what it returned.
Pushed(values, outcome) ==
    /\ Len(pushes) < MaxPushes
    /\ writer' = outcome.writer
    /\ pushes' = Append(pushes, [values |-> values, result |-> outcome.result])
    /\ UNCHANGED offWriter

PushVec3(values, include_bounds) == Pushed(values, push_vec3(writer, values, include_bounds))

PushVec2(values) == Pushed(values, push_vec2(writer, values))

PushVec4(values) == Pushed(values, push_vec4(writer, values))

PushIndices(values) == Pushed(values, push_indices(writer, values))

WriterNext ==
    \/ \E values \in Vec3Arrays, include_bounds \in BOOLEAN : PushVec3(values, include_bounds)
    \/ \E values \in Vec2Arrays : PushVec2(values)
    \/ \E values \in Vec4Arrays : PushVec4(values)
    \/ \E values \in IndexArrays : PushIndices(values)

\* A BufferWriter under any sequence of pushes, empty arrays included.
WriterSpec == WriterInit /\ [][WriterNext]_vars

\* ---------------------------------------------------------------- state machine: the exporter
\* Vertex arrays of a triangle and of a quad, and arrays of other lengths.
TrianglePositions == <<Vec3(0, 0, 0), Vec3(0, 0, TILE_SIZE), Vec3(TILE_SIZE, 0, TILE_SIZE)>>

QuadPositions ==
    <<Vec3(0, TILE_HEIGHT, 0), Vec3(0, 0 - TILE_HEIGHT, TILE_SIZE),
      Vec3(TILE_SIZE, 0, 2 * TILE_SIZE), Vec3(TILE_SIZE, TILE_HEIGHT, 0)>>

TimesOf(value, count) == [i \in 1..count |-> value]

PositionChoices ==
    {None, Some(Float32x2(TimesOf(<<0, 0>>, 3))), Some(Float32x3(<<>>)),
     Some(Float32x3(TrianglePositions)), Some(Float32x3(QuadPositions))}

NormalChoices ==
    {None, Some(Float32x4(TimesOf(<<0, 10000, 0, 0>>, 4))), Some(Float32x3(<<>>)),
     Some(Float32x3(TimesOf(Vec3(0, 10000, 0), 3))),
     Some(Float32x3(TimesOf(Vec3(0, -10000, 0), 4)))}

TexcoordChoices ==
    {None, Some(Float32x3(TimesOf(Vec3(0, 0, 0), 4))), Some(Float32x2(<<>>)),
     Some(Float32x2(TimesOf(<<0, 0>>, 3))), Some(Float32x2(TimesOf(<<0, 0>>, 4)))}

Texcoord1Choices ==
    {None, Some(Float32x3(TimesOf(Vec3(0, 0, 0), 4))),
     Some(Float32x2(TimesOf(<<30000, TILE_HEIGHT>>, 3))),
     Some(Float32x2(TimesOf(<<30000, TILE_HEIGHT>>, 4)))}

ColorChoices ==
    {None, Some(Float32x3(TimesOf(Vec3(0, 0, 0), 4))),
     Some(Float32x4(TimesOf(<<-20000, 0, 0, 0>>, 3))),
     Some(Float32x4(TimesOf(<<-10000, 0, 10000, 0>>, 4)))}

IndexChoices ==
    {None, Some(U32(<<>>)), Some(U16(<<>>)), Some(U16(<<0, 1, 2>>)),
     Some(U32(<<0, 1, 2, 0, 2, 3>>))}

with_attribute(mesh, name, values) ==
    IF values = None THEN mesh ELSE insert_attribute(mesh, name, values[1])

MeshOf(positions, normals, texcoords, texcoords1, colors, indices) ==
    LET m1 == with_attribute(empty_mesh, "POSITION", positions)
        m2 == with_attribute(m1, "NORMAL", normals)
        m3 == with_attribute(m2, "UV_0", texcoords)
        m4 == with_attribute(m3, "UV_1", texcoords1)
        m5 == with_attribute(m4, "COLOR", colors)
    IN  IF indices = None THEN m5 ELSE insert_indices(m5, indices[1])

ExportInit ==
    /\ map = new(0, 0)
    /\ edits = 0
    /\ result = NoCall
    /\ mesh_buffers = MeshBuffers_default
    /\ image = NoImage
    /\ writer = BufferWriter_default
    /\ pushes = <<>>
    /\ disk = NoDisk
    /\ state = NoEditor
    /\ frame = NoFrame
    /\ mesh_assets = NoMeshes

\* mesh_to_glb(&mesh), as export_package calls it.
MeshToGlb(mesh) ==
    /\ result = NoCall
    /\ result' = [call |-> "mesh_to_glb", mesh |-> mesh, value |-> mesh_to_glb(mesh)]
    /\ UNCHANGED <<map, edits>>
    /\ UNCHANGED offGrid

\* One export call per run of the exporter.
ExportNext ==
    /\ result = NoCall
    /\ \E positions \in PositionChoices, normals \in NormalChoices,
          texcoords \in TexcoordChoices, texcoords1 \in Texcoord1Choices,
          colors \in ColorChoices, indices \in IndexChoices :
          MeshToGlb(MeshOf(positions, normals, texcoords, texcoords1, colors, indices))

\* mesh_to_glb applied to well-formed and malformed meshes.
ExportSpec == ExportInit /\ [][ExportNext]_vars

Spec ==
    (Init \/ BufferInit \/ SplatInit \/ WriterInit \/ ExportInit)
        /\ [][Next \/ BufferNext \/ SplatNext \/ WriterNext \/ ExportNext]_vars

\* ---------------------------------------------------------------- state machine: map files
Paths == {"level.map"}

\* Tiles as the editor and earlier files can leave them: every kind and
\* surface type, both signs of elevation, a direction or none.
IoTiles(x, y) ==
    {Tile("Ramp", "Rock", x, y, 0 - ElevRange, Some("West")),
     Tile("Floor", "Sand", x, y, ElevRange, None),
     Tile("Ramp", "Dirt", x, y, 0, Some("North"))}

IoPaint == \E x \in 0..(MaxWidth - 1), y \in 0..(MaxHeight - 1) : \E t \in IoTiles(x, y) : Set(x, y, t)

\* save_map(path, &map)
SaveMap(path, written) ==
    /\ result = NoCall
    /\ disk' = [disk EXCEPT !.files = save_map(disk.files, path, map, written).files]
    /\ result' = [call |-> "save_map", path |-> path,
                  value |-> save_map(disk.files, path, map, written).value]
    /\ UNCHANGED <<map, edits, mesh_buffers, image, writer, pushes, state, frame, mesh_assets>>

\* load_map(path), right after a save or on its own.
LoadMapFile(path) ==
    /\ result.call \in {"none", "save_map"}
    /\ result' = [call |-> "load_map", path |-> path, value |-> load_map(disk.files, path)]
    /\ UNCHANGED <<map, edits, mesh_buffers, image, writer, pushes, disk, state, frame, mesh_assets>>

IoNext ==
    \/ IoPaint
    \/ \E path \in Paths, written \in WriteOutcomes : SaveMap(path, written)
    \/ \E path \in Paths : LoadMapFile(path)

\* Grids under edits, saved to and loaded from files.
IoSpec == Init /\ [][IoNext]_vars

\* ---------------------------------------------------------------- state machine: packages
\* The texture files the descriptors name; the second one is not on the disk.
GrassFile == PathOf(<<"assets">>, "grass", "png")

MissingFile == PathOf(<<"assets">>, "missing", "png")

Descriptor(tile_type, identifier, diffuse, normal) ==
    [tile_type |-> tile_type, identifier |-> identifier, diffuse |-> [source_path |-> diffuse],
     normal |-> normal, roughness |-> None]

GrassTexture == Descriptor("Grass", <<"g", "r", "a", "s", "s">>, GrassFile, None)

\* collect_texture_descriptors hands over whatever the palette holds: an
\* identifier with a path separator, a normal map that cannot be read.
TextureLists ==
    {<<>>, <<GrassTexture>>,
     <<Descriptor("Dirt", <<"a", "/", "b">>, GrassFile, None)>>,
     <<GrassTexture, Descriptor("Rock", <<"r", "_", "1">>, GrassFile, Some([source_path |-> MissingFile]))>>}

WallTextures == {None, Some([identifier |-> <<"w", "a", "l", "l">>, diffuse |-> [source_path |-> GrassFile], normal |-> None, roughness |-> None])}

OutputPaths == {PathOf(<<>>, "world", "zip"), PathOf(<<"exports">>, "world", "zip")}

Faults == [create_dir_all : BOOLEAN, create : BOOLEAN, failing : {None} \cup {Some(k) : k \in 1..MaxZipSteps}]

\* The disk before any export: the assets directory with one texture file.
PackageInit ==
    /\ \E w \in 0..MaxWidth, h \in 0..MaxHeight : map = new(w, h)
    /\ edits = 0
    /\ result = NoCall
    /\ mesh_buffers = MeshBuffers_default
    /\ image = NoImage
    /\ writer = BufferWriter_default
    /\ pushes = <<>>
    /\ disk = [dirs |-> {<<"assets">>}, files |-> fs_write(<<>>, GrassFile, <<137, 80, 78, 71>>)]
    /\ state = NoEditor
    /\ frame = NoFrame
    /\ mesh_assets = NoMeshes

\* export_package(&output_path, map, map_name, textures, wall_texture,
\* splat_png), as the export task runs it, once on the grid; the value keeps
\* the disk the call found.
ExportPackage(output_path, textures, wall_texture, faults) ==
    /\ result = NoCall
    /\ disk' = export_package(disk, output_path, map, "world", textures, wall_texture,
                              <<137, 80, 78, 71>>, faults).disk
    /\ result' = [call |-> "export_package", output_path |-> output_path, before |-> disk,
                  value |-> export_package(disk, output_path, map, "world", textures,
                                           wall_texture, <<137, 80, 78, 71>>, faults).value]
    /\ UNCHANGED <<map, edits, mesh_buffers, image, writer, pushes, state, frame, mesh_assets>>

PackageNext ==
    \E output_path \in OutputPaths, textures \in TextureLists, wall_texture \in WallTextures, faults \in Faults :
        ExportPackage(output_path, textures, wall_texture, faults)

\* Grids exported to package files on a disk that may refuse operations.
PackageSpec == PackageInit /\ [][PackageNext]_vars

\* ---------------------------------------------------------------- editor.rs: systems
EditorTool == {"Paint", "RotateRamp"}

\* EditorState::default() without the grid, which is the variable map.
EditorState_default ==
    [current_tool |-> "Paint", current_kind |-> "Floor", current_elev |-> 0,
     current_texture |-> "Grass", hover |-> None, map_dirty |-> TRUE, show_grid |-> TRUE,
     current_file_path |-> None, save_dialog_task |-> None, load_dialog_task |-> None,
     export_dialog_task |-> None, export_task |-> None, last_export_status |-> None]

\* What a system leaves: the grid, the editor state, and the access it made
\* to the grid through hover, if any.
NoAccess == [accessed |-> FALSE]

Access(m, x, y) == [accessed |-> TRUE, x |-> x, y |-> y, grid |-> m, outcome |-> TileMap_get(m, x, y)]

Left(m, st, access) == [map |-> m, state |-> st, access |-> access]

\* update_hover: the pointer is over the interface, or off the window, or
\* its ray meets the plane in the tile (tx, ty); only a tile inside the
\* current grid becomes the hover. Both the elevated and the flat hit end
\* in the same coordinates.
update_hover(m, st, wants_pointer_input, hit) ==
    IF wants_pointer_input THEN [st EXCEPT !.hover = None]
    ELSE IF hit = None THEN [st EXCEPT !.hover = None]
    ELSE IF hit[1][1] >= 0 /\ hit[1][2] >= 0 /\ hit[1][1] < m.width /\ hit[1][2] < m.height
    THEN [st EXCEPT !.hover = Some(<<hit[1][1], hit[1][2]>>)]
    ELSE [st EXCEPT !.hover = None]

\* The lower neighbour test of ramp_targets for one direction.
is_ramp_target(m, x, y, base, dir) ==
    /\ x + offset(dir)[1] >= 0 /\ y + offset(dir)[2] >= 0
    /\ x + offset(dir)[1] < m.width /\ y + offset(dir)[2] < m.height
    /\ get(m, x + offset(dir)[1], y + offset(dir)[2]).elevation * TILE_HEIGHT < base

ramp_targets(m, x, y, base) == SelectSeq(ALL, LAMBDA dir : is_ramp_target(m, x, y, base, dir))

\* candidates.first().copied()
first(candidates) == IF candidates = <<>> THEN None ELSE Some(candidates[1])

contains(candidates, dir) == \E i \in 1..Len(candidates) : candidates[i] = dir

target_ramp_direction(m, current, kind, elevation, x, y) ==
    IF kind = "Ramp"
    THEN IF current.ramp_direction # None
            /\ contains(ramp_targets(m, x, y, elevation * TILE_HEIGHT), current.ramp_direction[1])
         THEN current.ramp_direction
         ELSE first(ramp_targets(m, x, y, elevation * TILE_HEIGHT))
    ELSE None

\* The tile paint_tiles wants at (x, y).
painted(m, st, current, x, y) ==
    Tile(st.current_kind, st.current_texture, x, y, st.current_elev,
         target_ramp_direction(m, current, st.current_kind, st.current_elev, x, y))

\* Variant: the grid is written without the flag being set.
paint_tiles_unflagged(m, st, wants_pointer_input, pressed) ==
    IF wants_pointer_input \/ st.current_tool # "Paint" \/ ~pressed \/ st.hover = None
    THEN Left(m, st, NoAccess)
    ELSE let(Access(m, st.hover[1][1], st.hover[1][2]), LAMBDA access :
         IF access.outcome.panicked THEN Left(m, st, access)
         ELSE let(painted(m, st, access.outcome.value, access.x, access.y), LAMBDA tile :
              IF \/ access.outcome.value.kind # tile.kind
                 \/ access.outcome.value.elevation # tile.elevation
                 \/ access.outcome.value.ramp_direction # tile.ramp_direction
                 \/ access.outcome.value.tile_type # tile.tile_type
              THEN Left(set(m, access.x, access.y, tile), st, access)
              ELSE Left(m, st, access)))

\* paint_tiles: with the left button held over a hovered tile the tile is
\* read, and written and flagged when a field differs. A panic of the read
\* leaves everything as it was.
paint_tiles(m, st, wants_pointer_input, pressed) ==
    IF wants_pointer_input \/ st.current_tool # "Paint" \/ ~pressed \/ st.hover = None
    THEN Left(m, st, NoAccess)
    ELSE let(Access(m, st.hover[1][1], st.hover[1][2]), LAMBDA access :
         IF access.outcome.panicked THEN Left(m, st, access)
         ELSE let(painted(m, st, access.outcome.value, access.x, access.y), LAMBDA tile :
              IF \/ access.outcome.value.kind # tile.kind
                 \/ access.outcome.value.elevation # tile.elevation
                 \/ access.outcome.value.ramp_direction # tile.ramp_direction
                 \/ access.outcome.value.tile_type # tile.tile_type
              THEN Left(set(m, access.x, access.y, tile), [st EXCEPT !.map_dirty = TRUE], access)
              ELSE Left(m, st, access)))

\* candidates.iter().position(|&dir| dir == current)
position(candidates, dir) ==
    IF contains(candidates, dir)
    THEN Some((CHOOSE i \in 1..Len(candidates) :
                  candidates[i] = dir /\ \A j \in 1..(i - 1) : candidates[j] # dir) - 1)
    ELSE None

next_direction(candidates, current) ==
    IF current = None THEN candidates[1]
    ELSE IF position(candidates, current[1]) # None
    THEN candidates[((position(candidates, current[1])[1] + 1) % Len(candidates)) + 1]
    ELSE candidates[1]

\* rotate_ramps: on a fresh press over a hovered ramp the direction moves to
\* the next candidate.
rotate_ramps(m, st, wants_pointer_input, just_pressed) ==
    IF wants_pointer_input \/ st.current_tool # "RotateRamp" \/ ~just_pressed \/ st.hover = None
    THEN Left(m, st, NoAccess)
    ELSE let(Access(m, st.hover[1][1], st.hover[1][2]), LAMBDA access :
         IF access.outcome.panicked THEN Left(m, st, access)
         ELSE IF access.outcome.value.kind # "Ramp" THEN Left(m, st, access)
         ELSE let(ramp_targets(m, access.x, access.y,
                               access.outcome.value.elevation * TILE_HEIGHT), LAMBDA candidates :
              IF candidates = <<>> THEN Left(m, st, access)
              ELSE IF access.outcome.value.ramp_direction
                      = Some(next_direction(candidates, access.outcome.value.ramp_direction))
              THEN Left(m, st, access)
              ELSE Left(set(m, access.x, access.y,
                            [access.outcome.value EXCEPT !.ramp_direction =
                                Some(next_direction(candidates,
                                                    access.outcome.value.ramp_direction))]),
                        [st EXCEPT !.map_dirty = TRUE], access)))

\* draw_hover_highlight: the corner heights of the hovered tile are read.
draw_hover_highlight(m, st) ==
    IF st.hover = None THEN Left(m, st, NoAccess)
    ELSE Left(m, st, Access(m, st.hover[1][1], st.hover[1][2]))

\* mark_map_clean
mark_map_clean(st) == IF st.map_dirty THEN [st EXCEPT !.map_dirty = FALSE] ELSE st

\* ---------------------------------------------------------------- ui.rs: ui_panel
\* TileType::identifier, character by character.
identifier(tile_type) ==
    CASE tile_type = "Grass" -> <<"g", "r", "a", "s", "s">>
      [] tile_type = "Dirt" -> <<"d", "i", "r", "t">>
      [] tile_type = "Sand" -> <<"s", "a", "n", "d">>
      [] tile_type = "Rock" -> <<"r", "o", "c", "k">>

\* resolve_asset_path of a relative path: it must exist under "assets".
resolve_asset_path(fs, path) ==
    IF PathOf(<<"assets">> \o path.parent, path.stem, path.extension) \in DOMAIN fs
    THEN Ok(PathOf(<<"assets">> \o path.parent, path.stem, path.extension))
    ELSE Err(<<"Asset path not found", path>>)

resolve_optional(fs, path) ==
    IF path = None THEN Ok(None)
    ELSE let(resolve_asset_path(fs, path[1]), LAMBDA resolved :
         IF ~resolved.ok THEN resolved ELSE Ok(Some([source_path |-> resolved.value])))

\* The three files of a registry entry, resolved in the order diffuse,
\* normal, roughness; the first one that is not found is the error.
resolve_entry(fs, entry) ==
    let(resolve_asset_path(fs, entry.diffuse_path), LAMBDA diffuse :
    IF ~diffuse.ok THEN diffuse ELSE
    let(resolve_optional(fs, entry.normal_path), LAMBDA normal :
    IF ~normal.ok THEN normal ELSE
    let(resolve_optional(fs, entry.roughness_path), LAMBDA roughness :
    IF ~roughness.ok THEN roughness
    ELSE Ok([diffuse |-> [source_path |-> diffuse.value], normal |-> normal.value,
             roughness |-> roughness.value]))))

\* The tile types of the grid's tiles.
used_types(m) == {m.tiles[i].tile_type : i \in 1..Len(m.tiles)}

\* The loop of collect_texture_descriptors over TileType::ALL from number i on.
RECURSIVE collect_from(_, _, _, _, _)
collect_from(m, registry, fs, i, descriptors) ==
    IF i > Len(TileType_variants) THEN Ok(descriptors)
    ELSE IF TileType_variants[i] \notin used_types(m)
    THEN collect_from(m, registry, fs, i + 1, descriptors)
    ELSE IF TileType_variants[i] \notin DOMAIN registry.entries
    THEN Err(<<"No terrain texture registered for", TileType_variants[i]>>)
    ELSE let(resolve_entry(fs, registry.entries[TileType_variants[i]]), LAMBDA files :
         IF ~files.ok THEN files
         ELSE collect_from(m, registry, fs, i + 1,
                  Append(descriptors,
                         [tile_type |-> TileType_variants[i],
                          identifier |-> identifier(TileType_variants[i]),
                          diffuse |-> files.value.diffuse, normal |-> files.value.normal,
                          roughness |-> files.value.roughness])))

collect_texture_descriptors(m, registry, fs) ==
    let(collect_from(m, registry, fs, 1, <<>>), LAMBDA descriptors :
    IF ~descriptors.ok THEN descriptors
    ELSE IF registry.wall_texture = None
    THEN Ok([descriptors |-> descriptors.value, wall_descriptor |-> None])
    ELSE let(resolve_entry(fs, registry.wall_texture[1]), LAMBDA files :
         IF ~files.ok THEN files
         ELSE Ok([descriptors |-> descriptors.value,
                  wall_descriptor |-> Some([identifier |-> registry.wall_texture[1].id,
                                            diffuse |-> files.value.diffuse,
                                            normal |-> files.value.normal,
                                            roughness |-> files.value.roughness])])))

\* encode_splatmap_png: the raster must be RGBA8; the PNG is kept as the
\* raster it encodes. The encoder refuses data that is not width*height*4 long.
encode_splatmap_png(img) ==
    IF img.texture_descriptor.format # "Rgba8Unorm"
    THEN Err(<<"Splatmap must be RGBA8 format for export">>)
    ELSE IF Len(img.data) # img.texture_descriptor.size.width * img.texture_descriptor.size.height * 4
    THEN Err(<<"PNG encoding failed">>)
    ELSE Ok([png_of |-> [width |-> img.texture_descriptor.size.width,
                         height |-> img.texture_descriptor.size.height,
                         data |-> img.data]])

build_map_splatmap_png(m) == encode_splatmap_png(create(m))

\* The weight map handed to the export: the runtime raster when there is
\* one, else a rasterisation of the cloned grid.
splat_png_result(img, map_clone) ==
    IF img # NoImage THEN encode_splatmap_png(img) ELSE build_map_splatmap_png(map_clone)

ensure_extension(path, extension) ==
    IF path.extension # extension THEN [path EXCEPT !.extension = extension] ELSE path

infer_export_name(st, export_path) ==
    IF st.current_file_path # None THEN st.current_file_path[1].stem ELSE export_path.stem

\* A dialog or an export has been spawned and its value is not taken yet.
Spawned == Some("spawned")

\* The part of the application ui_panel works on.
App(m, st, d) == [map |-> m, state |-> st, disk |-> d, assigned |-> FALSE]

\* The palette test and the widgets of the toolbar; at most one widget is
\* clicked in a frame.
ui_toolbar(st, registry, click) ==
    let(IF st.current_texture \notin DOMAIN registry.entries /\ DOMAIN registry.entries # {}
        THEN [st EXCEPT !.current_texture =
                 TileType_variants[CHOOSE i \in 1..4 : /\ TileType_variants[i] \in DOMAIN registry.entries
                                                       /\ \A j \in 1..(i - 1) : TileType_variants[j] \notin DOMAIN registry.entries]]
        ELSE st, LAMBDA s :
    CASE click.widget = "tool" -> [s EXCEPT !.current_tool = click.tool]
      [] click.widget = "kind" /\ s.current_tool = "Paint" -> [s EXCEPT !.current_kind = click.kind]
      [] click.widget = "elevation" -> [s EXCEPT !.current_elev = click.elevation]
      [] click.widget = "save" /\ s.save_dialog_task = None -> [s EXCEPT !.save_dialog_task = Spawned]
      [] click.widget = "export" /\ s.export_dialog_task = None /\ s.export_task = None ->
            [s EXCEPT !.export_dialog_task = Spawned]
      [] click.widget = "load" /\ s.load_dialog_task = None -> [s EXCEPT !.load_dialog_task = Spawned]
      [] click.widget = "gridlines" -> [s EXCEPT !.show_grid = ~s.show_grid]
      [] click.widget = "texture" /\ click.texture \in DOMAIN registry.entries ->
            [s EXCEPT !.current_texture = click.texture]
      [] OTHER -> s)

\* The save dialog has finished: with a path the grid is saved there.
ui_save_dialog(a, finished, written) ==
    IF a.state.save_dialog_task = None \/ finished = None THEN a
    ELSE IF finished[1] = None THEN [a EXCEPT !.state.save_dialog_task = None]
    ELSE let(save_map(a.disk.files, finished[1][1], a.map, written), LAMBDA saved :
         IF ~saved.value.ok
         THEN [a EXCEPT !.state.save_dialog_task = None, !.disk.files = saved.files]
         ELSE [a EXCEPT !.state.save_dialog_task = None, !.disk.files = saved.files,
                        !.state.current_file_path = Some(finished[1][1])])

Failure == Some("Failure")

Success == Some("Success")

\* Variant: an export is spawned while the dialog stays pending.
ui_export_dialog_kept(a, img, registry, finished) ==
    IF a.state.export_dialog_task = None \/ finished = None \/ finished[1] = None THEN a
    ELSE [a EXCEPT !.state.last_export_status = None,
                   !.state.export_task =
                       Some([output_path |-> ensure_extension(finished[1][1], "tmemapdata"),
                             map |-> a.map, splat_png |-> build_map_splatmap_png(a.map).value,
                             map_name |-> "", textures |-> <<>>, wall_texture |-> None])]

\* The export dialog has finished: with a path the descriptors are gathered,
\* the grid is cloned, the weight map is encoded and the export is spawned.
ui_export_dialog(a, img, registry, finished) ==
    IF a.state.export_dialog_task = None \/ finished = None THEN a
    ELSE IF finished[1] = None THEN [a EXCEPT !.state.export_dialog_task = None]
    ELSE let(collect_texture_descriptors(a.map, registry, a.disk.files), LAMBDA collected :
         IF ~collected.ok
         THEN [a EXCEPT !.state.export_dialog_task = None, !.state.last_export_status = Failure]
         ELSE let(splat_png_result(img, a.map), LAMBDA splat_png :
              IF ~splat_png.ok
              THEN [a EXCEPT !.state.export_dialog_task = None, !.state.last_export_status = Failure]
              ELSE [a EXCEPT !.state.export_dialog_task = None,
                             !.state.last_export_status = None,
                             !.state.export_task =
                                 Some([output_path |-> ensure_extension(finished[1][1], "tmemapdata"),
                                       map |-> a.map,
                                       map_name |-> infer_export_name(a.state, ensure_extension(finished[1][1], "tmemapdata")),
                                       textures |-> collected.value.descriptors,
                                       wall_texture |-> collected.value.wall_descriptor,
                                       splat_png |-> splat_png.value])]))

\* The export has finished: its value becomes the status. What the export
\* wrote is on the disk from here on.
ui_export_task(a, finished) ==
    IF a.state.export_task = None \/ finished = None THEN a
    ELSE let(export_package(a.disk, a.state.export_task[1].output_path, a.state.export_task[1].map,
                            a.state.export_task[1].map_name, a.state.export_task[1].textures,
                            a.state.export_task[1].wall_texture, a.state.export_task[1].splat_png,
                            finished[1]), LAMBDA exported :
         [a EXCEPT !.state.export_task = None, !.disk = exported.disk,
                   !.state.last_export_status = IF exported.value.ok THEN Success ELSE Failure])

\* The load dialog has finished: with a path that loads, the grid is replaced.
ui_load_dialog(a, finished) ==
    IF a.state.load_dialog_task = None \/ finished = None THEN a
    ELSE IF finished[1] = None THEN [a EXCEPT !.state.load_dialog_task = None]
    ELSE let(load_map(a.disk.files, finished[1][1]), LAMBDA loaded :
         IF ~loaded.ok THEN [a EXCEPT !.state.load_dialog_task = None]
         ELSE [a EXCEPT !.state.load_dialog_task = None, !.map = loaded.value, !.assigned = TRUE,
                        !.state.map_dirty = TRUE,
                        !.state.current_file_path = Some(finished[1][1])])

\* ui_panel: the toolbar, then the four tasks in the order of the source.
\* event says which widget was clicked and which tasks have finished with what.
ui_panel(m, st, d, img, registry, event) ==
    let(App(m, ui_toolbar(st, registry, event.click), d), LAMBDA a1 :
    let(ui_save_dialog(a1, event.save_dialog, event.written), LAMBDA a2 :
    let(ui_export_dialog(a2, img, registry, event.export_dialog), LAMBDA a3 :
    let(ui_export_task(a3, event.export_task), LAMBDA a4 :
    ui_load_dialog(a4, event.load_dialog)))))

\* ---------------------------------------------------------------- runtime.rs and editor.rs: rebuild systems
\* Assets<Mesh> at the handles of the runtime terrain and of the editor's layers.
Meshes(runtime, layers) == [runtime |-> runtime, layers |-> layers]

\* What a rebuild system leaves, and whether it got past its early returns.
Rebuilt(value, worked) == [value |-> value, worked |-> worked]

\* generate_splat_map: nothing without the flag or without the raster.
generate_splat_map(m, st, img) ==
    IF ~st.map_dirty THEN Rebuilt(img, FALSE)
    ELSE IF img = NoImage THEN Rebuilt(img, FALSE)
    ELSE Rebuilt(write(m, img), TRUE)

rebuild_runtime_mesh(m, st, ms) ==
    IF ~st.map_dirty THEN Rebuilt(ms, FALSE)
    ELSE Rebuilt([ms EXCEPT !.runtime = build_combined_mesh(m)], TRUE)

\* rebuild_terrain_mesh: every layer gets its mesh, or the empty mesh when
\* the grid has no tile of its type.
rebuild_terrain_mesh(m, st, ms) ==
    IF ~st.map_dirty THEN Rebuilt(ms, FALSE)
    ELSE let(build_map_meshes(m), LAMBDA mesh_map :
         Rebuilt([ms EXCEPT !.layers = [t \in DOMAIN ms.layers |->
                                           IF t \in DOMAIN mesh_map THEN mesh_map[t]
                                           ELSE empty_mesh]], TRUE))

\* ---------------------------------------------------------------- state machine: the editor's frames
\* The textures spawn_editor_assets registers: two files sets shared by the
\* four tile types, and the wall texture.
Terrain(stem, extension) == PathOf(<<"textures", "terrain">>, stem, extension)

Rock(stem, extension) == PathOf(<<"textures", "terrain", "rock">>, stem, extension)

RockyTerrain ==
    [diffuse_path |-> Terrain("rocky_terrain_02_diff_1k", "png"),
     normal_path |-> Some(Terrain("rocky_terrain_02_nor_gl_1k_fixed", "exr")),
     roughness_path |-> Some(Terrain("roughness_l8", "png"))]

GroundRock ==
    [diffuse_path |-> Rock("aerial_ground_rock_diff_1k", "png"),
     normal_path |-> Some(Rock("aerial_ground_rock_nor_gl_1k_fixed", "exr")),
     roughness_path |-> Some(Rock("roughness_in_G", "png"))]

Registry ==
    [entries |-> [t \in TileType |-> IF t \in {"Grass", "Dirt"} THEN RockyTerrain ELSE GroundRock],
     wall_texture |-> Some([id |-> <<"w", "a", "l", "l">>, diffuse_path |-> GroundRock.diffuse_path,
                            normal_path |-> GroundRock.normal_path,
                            roughness_path |-> GroundRock.roughness_path])]

InAssets(path) == PathOf(<<"assets">> \o path.parent, path.stem, path.extension)

AssetFiles ==
    {InAssets(e.diffuse_path) : e \in {RockyTerrain, GroundRock}}
    \cup {InAssets(e.normal_path[1]) : e \in {RockyTerrain, GroundRock}}
    \cup {InAssets(e.roughness_path[1]) : e \in {RockyTerrain, GroundRock}}

\* A map file saved in an earlier session: a grid one column narrower than
\* the grid the editor starts with, with a ramp on its first tile.
SmallMapFile == PathOf(<<"maps">>, "small", "map")

SmallGrid ==
    set(set(new(MaxWidth - 1, MaxHeight), 0, 0, Tile("Ramp", "Grass", 0, 0, 1, Some("East"))),
        MaxWidth - 2, MaxHeight - 1, Tile("Floor", "Grass", MaxWidth - 2, MaxHeight - 1, 1, None))

\* The disk when the editor starts; missing is an asset file that is not there.
EditorDisk(missing) ==
    [dirs |-> {<<"assets">>, <<"maps">>},
     files |-> [p \in (AssetFiles \ missing) \cup {SmallMapFile} |->
                   IF p = SmallMapFile THEN save_map_bytes(SmallGrid).value
                   ELSE <<137, 80, 78, 71>>]]

BeforeRebuild == {"ui_panel", "update_hover", "paint_tiles", "rotate_ramps", "draw_hover_highlight"}

Rebuild == {"generate_splat_map", "rebuild_runtime_mesh", "rebuild_terrain_mesh"}

Cleanup == {"mark_map_clean"}

\* The systems that must have run in the frame before a system may run:
\* the systems placed before the Rebuild set come first in any order, the
\* runtime systems are chained, Rebuild comes before Cleanup.
must_precede(system) ==
    IF system \in BeforeRebuild THEN {}
    ELSE IF system = "rebuild_runtime_mesh" THEN BeforeRebuild \cup {"generate_splat_map"}
    ELSE IF system \in Rebuild THEN BeforeRebuild
    ELSE BeforeRebuild \cup Rebuild

\* A frame that has not run any system yet.
FrameStart(starting) == [first |-> starting, ran |-> {}, changed |-> FALSE, worked |-> {}]

\* The editor after the Startup schedule: the default state on the starting
\* grid, the weight map of that grid, empty meshes at every handle.
EditorInitWith(missing) ==
    /\ map = new(MaxWidth, MaxHeight)
    /\ edits = 0
    /\ result = NoCall
    /\ mesh_buffers = MeshBuffers_default
    /\ image = create(map)
    /\ writer = BufferWriter_default
    /\ pushes = <<>>
    /\ disk = EditorDisk(missing)
    /\ state = EditorState_default
    /\ frame = FrameStart(TRUE)
    /\ mesh_assets = Meshes(empty_mesh, [t \in TileType |-> empty_mesh])

EditorInit == EditorInitWith({})

\* A system has panicked on its access to the grid: the application has ended.
Crashed == result # NoCall /\ result.access.outcome.panicked

Runnable(system) ==
    /\ ~Crashed
    /\ system \notin frame.ran
    /\ must_precede(system) \subseteq frame.ran

\* The bookkeeping of a system that ran.
Ran(system, written, worked) ==
    [frame EXCEPT !.ran = @ \cup {system}, !.changed = @ \/ written,
                  !.worked = IF worked THEN @ \cup {system} ELSE @]

\* What is kept of a system's access to the grid through hover.
Accessing(system, access) ==
    IF access.accessed THEN [call |-> system, access |-> access] ELSE NoCall

UiPanel(event) ==
    /\ Runnable("ui_panel")
    /\ \E a \in {ui_panel(map, state, disk, image, Registry, event)} :
          /\ map' = a.map
          /\ state' = a.state
          /\ disk' = a.disk
          /\ edits' = IF a.assigned THEN edits + 1 ELSE edits
          /\ frame' = Ran("ui_panel", a.assigned, FALSE)
    /\ result' = NoCall
    /\ UNCHANGED <<mesh_buffers, image, writer, pushes, mesh_assets>>

UpdateHover(wants_pointer_input, hit) ==
    /\ Runnable("update_hover")
    /\ state' = update_hover(map, state, wants_pointer_input, hit)
    /\ frame' = Ran("update_hover", FALSE, FALSE)
    /\ result' = NoCall
    /\ UNCHANGED <<map, edits, mesh_buffers, image, writer, pushes, disk, mesh_assets>>

\* A system that reaches the grid through hover.
Edit(system, left) ==
    /\ map' = left.map
    /\ state' = left.state
    /\ edits' = IF left.map # map THEN edits + 1 ELSE edits
    /\ frame' = Ran(system, left.map # map, FALSE)
    /\ result' = Accessing(system, left.access)
    /\ UNCHANGED <<mesh_buffers, image, writer, pushes, disk, mesh_assets>>

PaintTiles(wants_pointer_input, pressed) ==
    /\ Runnable("paint_tiles")
    /\ \E left \in {paint_tiles(map, state, wants_pointer_input, pressed)} : Edit("paint_tiles", left)

RotateRamps(wants_pointer_input, just_pressed) ==
    /\ Runnable("rotate_ramps")
    /\ \E left \in {rotate_ramps(map, state, wants_pointer_input, just_pressed)} : Edit("rotate_ramps", left)

DrawHoverHighlight ==
    /\ Runnable("draw_hover_highlight")
    /\ \E left \in {draw_hover_highlight(map, state)} : Edit("draw_hover_highlight", left)

GenerateSplatMap ==
    /\ Runnable("generate_splat_map")
    /\ \E rebuilt \in {generate_splat_map(map, state, image)} :
          /\ image' = rebuilt.value
          /\ frame' = Ran("generate_splat_map", FALSE, rebuilt.worked)
    /\ result' = NoCall
    /\ UNCHANGED <<map, edits, mesh_buffers, writer, pushes, disk, state, mesh_assets>>

RebuildRuntimeMesh ==
    /\ Runnable("rebuild_runtime_mesh")
    /\ \E rebuilt \in {rebuild_runtime_mesh(map, state, mesh_assets)} :
          /\ mesh_assets' = rebuilt.value
          /\ frame' = Ran("rebuild_runtime_mesh", FALSE, rebuilt.worked)
    /\ result' = NoCall
    /\ UNCHANGED <<map, edits, mesh_buffers, image, writer, pushes, disk, state>>

RebuildTerrainMesh ==
    /\ Runnable("rebuild_terrain_mesh")
    /\ \E rebuilt \in {rebuild_terrain_mesh(map, state, mesh_assets)} :
          /\ mesh_assets' = rebuilt.value
          /\ frame' = Ran("rebuild_terrain_mesh", FALSE, rebuilt.worked)
    /\ result' = NoCall
    /\ UNCHANGED <<map, edits, mesh_buffers, image, writer, pushes, disk, state>>

MarkMapClean ==
    /\ Runnable("mark_map_clean")
    /\ state' = mark_map_clean(state)
    /\ frame' = Ran("mark_map_clean", FALSE, FALSE)
    /\ result' = NoCall
    /\ UNCHANGED <<map, edits, mesh_buffers, image, writer, pushes, disk, mesh_assets>>

\* The Update schedule has run every system; the application's runner
\* starts the next frame.
NextFrame ==
    /\ ~Crashed
    /\ frame.ran = BeforeRebuild \cup Rebuild \cup Cleanup
    /\ frame' = FrameStart(FALSE)
    /\ result' = NoCall
    /\ UNCHANGED <<map, edits, mesh_buffers, image, writer, pushes, disk, state, mesh_assets>>

\* What the user and the task pool do in a frame.
Click(widget, value) ==
    [widget |-> widget,
     tool |-> IF widget = "tool" THEN value ELSE "Paint",
     kind |-> IF widget = "kind" THEN value ELSE "Floor",
     elevation |-> IF widget = "elevation" THEN value ELSE 0,
     texture |-> IF widget = "texture" THEN value ELSE "Grass"]

NoClick == Click("none", None)

\* A pending dialog is still open, was cancelled, or has given a path.
DialogOutcomes(task, paths) ==
    IF task = None THEN {None} ELSE {None, Some(None)} \cup {Some(Some(p)) : p \in paths}

\* A pending export is still running, or has finished on a disk that
\* refused nothing or refused to create the file.
ExportOutcomes(pending) ==
    IF ~pending THEN {None}
    ELSE {None, Some([create_dir_all |-> TRUE, create |-> TRUE, failing |-> None]),
          Some([create_dir_all |-> TRUE, create |-> FALSE, failing |-> None])}

Events(clicks, save_paths, export_paths, load_paths) ==
    [click : clicks,
     save_dialog : DialogOutcomes(state.save_dialog_task, save_paths),
     written : {"all"},
     export_dialog : DialogOutcomes(state.export_dialog_task, export_paths),
     export_task : ExportOutcomes(state.export_task # None \/ state.export_dialog_task # None),
     load_dialog : DialogOutcomes(state.load_dialog_task, IF edits < MaxEdits THEN load_paths ELSE {})]

\* The pointer: over the interface, off the window, or over the plane at a
\* tile coordinate that may lie outside the grid.
Pointers ==
    {[wants_pointer_input |-> TRUE, hit |-> None], [wants_pointer_input |-> FALSE, hit |-> None]}
    \cup {[wants_pointer_input |-> FALSE, hit |-> Some(<<x, y>>)] :
             x \in {0, MaxWidth - 1, MaxWidth}, y \in {0, MaxHeight - 1}}

\* The left button is offered while edits remain.
Buttons == IF edits < MaxEdits THEN BOOLEAN ELSE {FALSE}

Systems(pointers) ==
    \/ \E pointer \in pointers : UpdateHover(pointer.wants_pointer_input, pointer.hit)
    \/ \E wants_pointer_input \in BOOLEAN, pressed \in Buttons : PaintTiles(wants_pointer_input, pressed)
    \/ \E wants_pointer_input \in BOOLEAN, just_pressed \in Buttons : RotateRamps(wants_pointer_input, just_pressed)
    \/ DrawHoverHighlight
    \/ GenerateSplatMap
    \/ RebuildRuntimeMesh
    \/ RebuildTerrainMesh
    \/ MarkMapClean
    \/ NextFrame

\* Editing: the user picks the tool and the kind and loads a map.
EditorClicks ==
    {NoClick, Click("tool", "RotateRamp"), Click("tool", "Paint"), Click("kind", "Ramp"),
     Click("load", None)}

EditorNext ==
    \/ \E event \in Events(EditorClicks, {}, {}, {SmallMapFile}) : UiPanel(event)
    \/ Systems(Pointers)

\* Frames of the editor under editing and loading.
EditorSpec == EditorInit /\ [][EditorNext]_vars

\* Exporting: the user picks a texture, paints with it and exports.
ExportClicks == {NoClick, Click("texture", "Rock"), Click("export", None)}

ExportPath == PathOf(<<"exports">>, "world", "zip")

\* While exporting the pointer is off the window or over the first tile.
ExportPointers ==
    {[wants_pointer_input |-> FALSE, hit |-> None], [wants_pointer_input |-> FALSE, hit |-> Some(<<0, 0>>)]}

ExportUiNext ==
    \/ \E event \in Events(ExportClicks, {}, {ExportPath}, {}) : UiPanel(event)
    \/ Systems(ExportPointers)

\* Frames of the editor under painting and exporting.
ExportUiSpec == EditorInit /\ [][ExportUiNext]_vars

\* ---------------------------------------------------------------- grid facts the claims are stated with
OnGrid(x, y) == x >= 0 /\ x < map.width /\ y >= 0 /\ y < map.height

TileAt(x, y) == map.tiles[y * map.width + x + 1]

HeightAt(x, y) == TileAt(x, y).elevation * TILE_HEIGHT

NbX(x, dir) == IF dir = "East" THEN x + 1 ELSE IF dir = "West" THEN x - 1 ELSE x

NbY(y, dir) == IF dir = "South" THEN y + 1 ELSE IF dir = "North" THEN y - 1 ELSE y

\* The neighbour in direction dir is in bounds and strictly lower.
Downhill(x, y, dir) ==
    /\ OnGrid(NbX(x, dir), NbY(y, dir))
    /\ HeightAt(NbX(x, dir), NbY(y, dir)) < HeightAt(x, y)

DownhillDirs(x, y) == {d \in RampDirection : Downhill(x, y, d)}

NbHeight(x, y, dir) == HeightAt(NbX(x, dir), NbY(y, dir))

Rank(dir) ==
    CASE dir = "North" -> 1 [] dir = "East" -> 2 [] dir = "South" -> 3 [] dir = "West" -> 4

\* The downhill neighbour of lowest height, the first in North, East, South,
\* West order among equals.
LowestDir(x, y) ==
    CHOOSE d \in DownhillDirs(x, y) :
        \A e \in DownhillDirs(x, y) :
            \/ NbHeight(x, y, d) < NbHeight(x, y, e)
            \/ NbHeight(x, y, d) = NbHeight(x, y, e) /\ Rank(d) <= Rank(e)

\* Corners <<NW, NE, SW, SE>> with the edge facing dir at h and the rest at base.
EdgeAt(dir, h, base) ==
    CASE dir = "North" -> <<h, h, base, base>>
      [] dir = "South" -> <<base, base, h, h>>
      [] dir = "West" -> <<h, base, h, base>>
      [] dir = "East" -> <<base, h, base, h>>

Flat(base) == <<base, base, base, base>>

Resolved == result.call = "tile_corner_heights"

ResolvedRamp == Resolved /\ TileAt(result.x, result.y).kind = "Ramp"

\* The stored direction of the resolved tile points at a downhill neighbour.
StoredValid ==
    /\ TileAt(result.x, result.y).ramp_direction # None
    /\ Downhill(result.x, result.y, TileAt(result.x, result.y).ramp_direction[1])

StoredDir == TileAt(result.x, result.y).ramp_direction[1]

LoweredTo(dir) ==
    result.value = EdgeAt(dir, NbHeight(result.x, result.y, dir), HeightAt(result.x, result.y))

\* ---------------------------------------------------------------- claims: resolver

\* C1: for an in-range Floor tile, tile_corner_heights returns four identical
\* corner heights equal to elevation * TILE_HEIGHT, whatever its stored
\* ramp_direction and its neighbours.
C1_FloorIsFlat ==
    (Resolved /\ TileAt(result.x, result.y).kind = "Floor")
        => result.value = Flat(HeightAt(result.x, result.y))

\* A Floor tile with a stored direction pointing at a lower neighbour was resolved.
C1_Witness ==
    /\ Resolved
    /\ TileAt(result.x, result.y).kind = "Floor"
    /\ StoredValid

\* C2 as stated: a Ramp tile with two or more downhill neighbours has the edge
\* facing the lowest one lowered (ties in North, East, South, West order), for
\* every stored ramp_direction.
C2_LowestAlwaysWins ==
    (ResolvedRamp /\ Cardinality(DownhillDirs(result.x, result.y)) >= 2)
        => LoweredTo(LowestDir(result.x, result.y))

\* C2 amended: with two or more downhill neighbours, a stored direction that
\* points at a downhill neighbour is the edge lowered; otherwise the lowest
\* downhill neighbour is, ties in North, East, South, West order.
C2_StoredElseLowest ==
    (ResolvedRamp /\ Cardinality(DownhillDirs(result.x, result.y)) >= 2)
        => IF StoredValid THEN LoweredTo(StoredDir)
           ELSE LoweredTo(LowestDir(result.x, result.y))

\* A ramp with downhill neighbours of different heights and no usable stored
\* direction was resolved, the lowest not being the first downhill in order.
C2_Witness ==
    /\ ResolvedRamp
    /\ ~StoredValid
    /\ \E d \in DownhillDirs(result.x, result.y) :
          /\ Rank(d) < Rank(LowestDir(result.x, result.y))
          /\ NbHeight(result.x, result.y, d) > NbHeight(result.x, result.y, LowestDir(result.x, result.y))

\* C3: a Ramp tile whose stored direction points at an in-bounds, strictly
\* lower neighbour has exactly the two corners of that edge at that
\* neighbour's height and the other two at base, whatever the other neighbours.
C3_StoredDirectionUsed ==
    (ResolvedRamp /\ StoredValid) => LoweredTo(StoredDir)

\* The stored direction was used although another neighbour is strictly lower.
C3_Witness ==
    /\ ResolvedRamp
    /\ StoredValid
    /\ \E d \in DownhillDirs(result.x, result.y) :
          NbHeight(result.x, result.y, d) < NbHeight(result.x, result.y, StoredDir)

\* C4: a Ramp tile whose stored direction is None or not a valid downhill
\* neighbour uses the lowest downhill neighbour found in North, East, South,
\* West order, the first seen winning an exact tie.
C4_SearchPicksLowest ==
    (ResolvedRamp /\ ~StoredValid /\ DownhillDirs(result.x, result.y) # {})
        => LoweredTo(LowestDir(result.x, result.y))

\* A stored direction pointing off the grid or uphill, with a tie among the
\* downhill neighbours.
C4_Witness ==
    /\ ResolvedRamp
    /\ TileAt(result.x, result.y).ramp_direction # None
    /\ ~StoredValid
    /\ \E d, e \in DownhillDirs(result.x, result.y) :
          d # e /\ NbHeight(result.x, result.y, d) = NbHeight(result.x, result.y, e)

\* C5: a Ramp tile with exactly one downhill neighbour has the corners of the
\* shared edge at the neighbour's height and the other two at base, for every
\* stored ramp_direction.
C5_SingleDownhill ==
    (ResolvedRamp /\ Cardinality(DownhillDirs(result.x, result.y)) = 1)
        => \A d \in DownhillDirs(result.x, result.y) : LoweredTo(d)

\* One downhill neighbour, and a stored direction pointing at another, in-bounds one.
C5_Witness ==
    /\ ResolvedRamp
    /\ Cardinality(DownhillDirs(result.x, result.y)) = 1
    /\ TileAt(result.x, result.y).ramp_direction # None
    /\ StoredDir \notin DownhillDirs(result.x, result.y)
    /\ OnGrid(NbX(result.x, StoredDir), NbY(result.y, StoredDir))

\* C6: a Ramp tile without an in-bounds strictly lower neighbour resolves to
\* four corners at base, as a Floor tile of the same elevation does.
C6_RampWithoutDownhillIsFlat ==
    (ResolvedRamp /\ DownhillDirs(result.x, result.y) = {})
        => /\ result.value = Flat(HeightAt(result.x, result.y))
           /\ result.value =
                tile_corner_heights(
                    set(map, result.x, result.y,
                        [TileAt(result.x, result.y) EXCEPT !.kind = "Floor"]),
                    result.x, result.y)

\* A ramp with a stored direction on a 1x1 grid was resolved.
C6_Witness ==
    /\ ResolvedRamp
    /\ map.width = 1 /\ map.height = 1
    /\ TileAt(result.x, result.y).ramp_direction # None

\* ---------------------------------------------------------------- reading a built mesh
Built == result.call \in {"build_combined_mesh", "build_map_meshes"}

BuiltCombined == result.call = "build_combined_mesh"

Positions(mesh) == mesh.attributes["POSITION"].data

Quads(mesh) == 1..(Len(Positions(mesh)) \div 6)

\* The four corners of quad q, stored as the triangles (v0, v1, v2), (v0, v2, v3).
V0(mesh, q) == Positions(mesh)[6 * q - 5]

V1(mesh, q) == Positions(mesh)[6 * q - 4]

V2(mesh, q) == Positions(mesh)[6 * q - 3]

V3(mesh, q) == Positions(mesh)[6 * q]

SameXZ(a, b) == a[1] = b[1] /\ a[3] = b[3]

\* A side face is (top_a, top_b, bottom_b, bottom_a): two columns; a top face
\* has four corners in four columns.
IsSide(mesh, q) == SameXZ(V2(mesh, q), V1(mesh, q)) /\ SameXZ(V3(mesh, q), V0(mesh, q))

IsTop(mesh, q) == ~IsSide(mesh, q)

\* The edge a side face stands on, from the way top_a -> top_b runs:
\* North nw->ne, South se->sw, West sw->nw, East ne->se.
FaceDir(mesh, q) ==
    LET a == V0(mesh, q)
        b == V1(mesh, q)
    IN  IF a[3] = b[3] THEN (IF a[1] < b[1] THEN "North" ELSE "South")
        ELSE (IF a[3] > b[3] THEN "West" ELSE "East")

FaceX(mesh, q) ==
    LET a == V0(mesh, q)
        b == V1(mesh, q)
    IN  IF IsTop(mesh, q) THEN a[1] \div TILE_SIZE
        ELSE CASE FaceDir(mesh, q) = "North" -> a[1] \div TILE_SIZE
               [] FaceDir(mesh, q) = "South" -> b[1] \div TILE_SIZE
               [] FaceDir(mesh, q) = "West" -> a[1] \div TILE_SIZE
               [] FaceDir(mesh, q) = "East" -> (a[1] \div TILE_SIZE) - 1

FaceY(mesh, q) ==
    LET a == V0(mesh, q)
        b == V1(mesh, q)
    IN  IF IsTop(mesh, q) THEN a[3] \div TILE_SIZE
        ELSE CASE FaceDir(mesh, q) = "North" -> a[3] \div TILE_SIZE
               [] FaceDir(mesh, q) = "South" -> (a[3] \div TILE_SIZE) - 1
               [] FaceDir(mesh, q) = "West" -> b[3] \div TILE_SIZE
               [] FaceDir(mesh, q) = "East" -> a[3] \div TILE_SIZE

SideQuads(mesh) == {q \in Quads(mesh) : IsSide(mesh, q)}

\* The tile edges <<<<x, y>>, dir>> that have a side face in the mesh.
SideEdges(mesh) ==
    {<<<<FaceX(mesh, q), FaceY(mesh, q)>>, FaceDir(mesh, q)>> : q \in SideQuads(mesh)}

\* Corner positions in <<NW, NE, SW, SE>> of the endpoints a and b of the
\* tile's edge, and of the same two points on the neighbour across it.
OwnCornerA(dir) ==
    CASE dir = "North" -> 1 [] dir = "South" -> 4 [] dir = "West" -> 3 [] dir = "East" -> 2

OwnCornerB(dir) ==
    CASE dir = "North" -> 2 [] dir = "South" -> 3 [] dir = "West" -> 1 [] dir = "East" -> 4

NbCornerA(dir) ==
    CASE dir = "North" -> 3 [] dir = "South" -> 2 [] dir = "West" -> 4 [] dir = "East" -> 1

NbCornerB(dir) ==
    CASE dir = "North" -> 4 [] dir = "South" -> 1 [] dir = "West" -> 2 [] dir = "East" -> 3

NbOnGrid(x, y, dir) == OnGrid(NbX(x, dir), NbY(y, dir))

GridTiles == (0..(map.width - 1)) \X (0..(map.height - 1))

\* The resolved corner heights of every tile of the grid.
CornerTable == [xy \in GridTiles |-> tile_corner_heights(map, xy[1], xy[2])]

TopA(cc, x, y, dir) == cc[<<x, y>>][OwnCornerA(dir)]

TopB(cc, x, y, dir) == cc[<<x, y>>][OwnCornerB(dir)]

\* The neighbour's corner heights at the two endpoints, 0 off the grid.
NbA(cc, x, y, dir) ==
    IF NbOnGrid(x, y, dir) THEN cc[<<NbX(x, dir), NbY(y, dir)>>][NbCornerA(dir)] ELSE 0

NbB(cc, x, y, dir) ==
    IF NbOnGrid(x, y, dir) THEN cc[<<NbX(x, dir), NbY(y, dir)>>][NbCornerB(dir)] ELSE 0

BottomA(cc, x, y, dir) == Min(NbA(cc, x, y, dir), TopA(cc, x, y, dir))

BottomB(cc, x, y, dir) == Min(NbB(cc, x, y, dir), TopB(cc, x, y, dir))

\* Top and bottom agree within 1e-4 at both endpoints of the edge.
EdgeClosed(cc, x, y, dir) ==
    LET own == cc[<<x, y>>]
        ta == own[OwnCornerA(dir)]
        tb == own[OwnCornerB(dir)]
        na == NbA(cc, x, y, dir)
        nb == NbB(cc, x, y, dir)
        da == ta - (IF na < ta THEN na ELSE ta)
        db == tb - (IF nb < tb THEN nb ELSE tb)
    IN  /\ da < 1 /\ da > -1
        /\ db < 1 /\ db > -1

OpenEdgesOf(cc) ==
    {e \in GridTiles \X RampDirection : ~EdgeClosed(cc, e[1][1], e[1][2], e[2])}

OpenEdges == LET cc == CornerTable IN OpenEdgesOf(cc)

\* The meshes a call returned, each with the tiles whose geometry it holds.
BuiltMeshes ==
    IF BuiltCombined THEN {<<result.value, GridTiles>>}
    ELSE {<<result.value[t], {xy \in GridTiles : TileAt(xy[1], xy[2]).tile_type = t}>> :
             t \in DOMAIN result.value}

\* ---------------------------------------------------------------- claims: mesh builder

\* C7: for every tile and each of its four edges the mesh holds no side face
\* when top and bottom agree within 1e-4 at both endpoints, and exactly one
\* quad of 6 vertices otherwise.
\* Stated per mesh: the edges with a side face are the open edges of the
\* mesh's tiles, one quad each, and the mesh has 6 vertices per top face and
\* per side face.
C7_SideFacePerOpenEdge ==
    Built =>
        /\ \A xy \in GridTiles : \E mt \in BuiltMeshes : xy \in mt[2]
        /\ LET cc == CornerTable
               allOpen == OpenEdgesOf(cc)
           IN  \A mt \in BuiltMeshes :
             LET open == {e \in allOpen : e[1] \in mt[2]}
             IN  /\ SideEdges(mt[1]) = open
                 /\ Cardinality(SideQuads(mt[1])) = Cardinality(open)
                 /\ Len(Positions(mt[1])) = 6 * (Cardinality(mt[2]) + Cardinality(open))

\* A mesh was built of a grid with an edge open at one endpoint only, an edge
\* open at both and a closed edge.
C7_Witness ==
    /\ Built
    /\ \E e \in OpenEdges :
          TopA(CornerTable, e[1][1], e[1][2], e[2]) = BottomA(CornerTable, e[1][1], e[1][2], e[2])
    /\ \E e \in OpenEdges :
          /\ TopA(CornerTable, e[1][1], e[1][2], e[2]) # BottomA(CornerTable, e[1][1], e[1][2], e[2])
          /\ TopB(CornerTable, e[1][1], e[1][2], e[2]) # BottomB(CornerTable, e[1][1], e[1][2], e[2])
    /\ OpenEdges # GridTiles \X RampDirection

\* C8: in every emitted side face the bottom height at each endpoint is the
\* minimum of the neighbour's corner height there (0 off the grid) and the
\* tile's own corner height, so no bottom vertex is above its top vertex; a
\* boundary tile whose edge corners are at or below 0 has no face on its
\* outward edge.
C8_BottomIsClampedMin ==
    Built =>
        LET cc == CornerTable
        IN  \A mt \in BuiltMeshes :
            /\ \A q \in Quads(mt[1]) :
                 IsSide(mt[1], q) =>
                    LET x == FaceX(mt[1], q)
                        y == FaceY(mt[1], q)
                        dir == FaceDir(mt[1], q)
                    IN  /\ OnGrid(x, y)
                        /\ V0(mt[1], q)[2] = TopA(cc, x, y, dir)
                        /\ V1(mt[1], q)[2] = TopB(cc, x, y, dir)
                        /\ V3(mt[1], q)[2] = Min(NbA(cc, x, y, dir), TopA(cc, x, y, dir))
                        /\ V2(mt[1], q)[2] = Min(NbB(cc, x, y, dir), TopB(cc, x, y, dir))
                        /\ V3(mt[1], q)[2] <= V0(mt[1], q)[2]
                        /\ V2(mt[1], q)[2] <= V1(mt[1], q)[2]
            /\ LET edges == SideEdges(mt[1])
               IN  \A xy \in GridTiles, dir \in RampDirection :
                     (/\ ~NbOnGrid(xy[1], xy[2], dir)
                      /\ TopA(cc, xy[1], xy[2], dir) <= 0
                      /\ TopB(cc, xy[1], xy[2], dir) <= 0)
                        => <<xy, dir>> \notin edges

\* A mesh holds a side face with an endpoint where the on-grid neighbour is
\* higher than the tile, and the grid has a boundary edge below 0.
C8_Witness ==
    /\ Built
    /\ \E mt \in BuiltMeshes : \E q \in Quads(mt[1]) :
          /\ IsSide(mt[1], q)
          /\ NbOnGrid(FaceX(mt[1], q), FaceY(mt[1], q), FaceDir(mt[1], q))
          /\ NbA(CornerTable, FaceX(mt[1], q), FaceY(mt[1], q), FaceDir(mt[1], q))
                > TopA(CornerTable, FaceX(mt[1], q), FaceY(mt[1], q), FaceDir(mt[1], q))
    /\ \E xy \in GridTiles, dir \in RampDirection :
          ~NbOnGrid(xy[1], xy[2], dir) /\ TopA(CornerTable, xy[1], xy[2], dir) < 0

Colors(mesh) == mesh.attributes["COLOR"].data

\* The colour carried by the six vertices of quad q, when they agree.
QuadColor(mesh, q) == Colors(mesh)[6 * q]

UniformColor(mesh, q) ==
    /\ Len(Colors(mesh)) = Len(Positions(mesh))
    /\ \A i \in (6 * q - 5)..(6 * q) : Colors(mesh)[i] = QuadColor(mesh, q)

NbKindIsRamp(x, y, dir) ==
    NbOnGrid(x, y, dir) /\ TileAt(NbX(x, dir), NbY(y, dir)).kind = "Ramp"

\* C9: in the combined mesh a side face has third colour component 1 exactly
\* when the tile or its on-grid neighbour across the edge is a Ramp and the
\* drop from top to bottom is strictly positive at one of the two endpoints;
\* otherwise it is 0.
C9_ForcedCliffFlag ==
    BuiltCombined =>
        \A q \in Quads(result.value) :
            IsSide(result.value, q) =>
                LET x == FaceX(result.value, q)
                    y == FaceY(result.value, q)
                    dir == FaceDir(result.value, q)
                    forced ==
                        /\ TileAt(x, y).kind = "Ramp" \/ NbKindIsRamp(x, y, dir)
                        /\ \/ V0(result.value, q)[2] - V3(result.value, q)[2] > 0
                           \/ V1(result.value, q)[2] - V2(result.value, q)[2] > 0
                IN  /\ UniformColor(result.value, q)
                    /\ QuadColor(result.value, q)[3] = IF forced THEN 1 ELSE 0

\* The combined mesh holds a flagged face of a Floor tile next to a Ramp, a
\* flagged face of a Ramp on the grid boundary and an unflagged side face.
C9_Witness ==
    /\ BuiltCombined
    /\ \E q \in Quads(result.value) :
          /\ IsSide(result.value, q)
          /\ QuadColor(result.value, q)[3] = 1
          /\ TileAt(FaceX(result.value, q), FaceY(result.value, q)).kind = "Floor"
    /\ \E q \in Quads(result.value) :
          /\ IsSide(result.value, q)
          /\ QuadColor(result.value, q)[3] = 1
          /\ ~NbOnGrid(FaceX(result.value, q), FaceY(result.value, q), FaceDir(result.value, q))
    /\ \E q \in Quads(result.value) :
          IsSide(result.value, q) /\ QuadColor(result.value, q)[3] = 0

\* The first colour component the claim gives a side face.
SideFirstComponent(x, y, dir) ==
    IF NbOnGrid(x, y, dir)
    THEN CASE TileAt(NbX(x, dir), NbY(y, dir)).tile_type = "Grass" -> 0
           [] TileAt(NbX(x, dir), NbY(y, dir)).tile_type = "Dirt" -> 1
           [] TileAt(NbX(x, dir), NbY(y, dir)).tile_type = "Sand" -> 2
           [] TileAt(NbX(x, dir), NbY(y, dir)).tile_type = "Rock" -> 3
    ELSE -1

\* C10: in the combined mesh every vertex of a top face has first colour
\* component -2, and every vertex of a side face has the on-grid neighbour's
\* surface-type index (0..3), or -1 when the neighbour is off-grid; no side
\* face carries -2 and no top face a side-face value.
C10_ColourSentinels ==
    BuiltCombined =>
        \A q \in Quads(result.value) :
            /\ UniformColor(result.value, q)
            /\ IsTop(result.value, q) => QuadColor(result.value, q)[1] = -2
            /\ IsSide(result.value, q) =>
                  /\ QuadColor(result.value, q)[1] =
                        SideFirstComponent(FaceX(result.value, q), FaceY(result.value, q),
                                           FaceDir(result.value, q))
                  /\ QuadColor(result.value, q)[1] \in {-1, 0, 1, 2, 3}

\* The combined mesh holds a side face towards a neighbour of another surface
\* type than the tile's, and an unflagged side face on the grid boundary.
C10_Witness ==
    /\ BuiltCombined
    /\ \E q \in Quads(result.value) :
          /\ IsSide(result.value, q)
          /\ NbOnGrid(FaceX(result.value, q), FaceY(result.value, q), FaceDir(result.value, q))
          /\ QuadColor(result.value, q)[1] = 3
          /\ TileAt(FaceX(result.value, q), FaceY(result.value, q)).tile_type = "Grass"
    /\ \E q \in Quads(result.value) :
          /\ IsSide(result.value, q)
          /\ ~NbOnGrid(FaceX(result.value, q), FaceY(result.value, q), FaceDir(result.value, q))
          /\ QuadColor(result.value, q)[3] = 0

\* ---------------------------------------------------------------- claims: blend mask and vertex counts
TopQuads(mesh) == {q \in Quads(mesh) : IsTop(mesh, q)}

\* The highest of four corner heights.
MaxOf(corners) ==
    CHOOSE h \in {corners[i] : i \in 1..4} : \A i \in 1..4 : corners[i] <= h

\* Two heights less than 0.01 world units apart.
WithinHundredth(a, b) == a - b < 100 /\ b - a < 100

\* The neighbour across dir is on the grid and its highest corner is level
\* with the tile's highest corner.
LevelWith(cc, x, y, dir) ==
    /\ NbOnGrid(x, y, dir)
    /\ WithinHundredth(MaxOf(cc[<<x, y>>]), MaxOf(cc[<<NbX(x, dir), NbY(y, dir)>>]))

BitOf(dir) ==
    CASE dir = "North" -> 1 [] dir = "South" -> 2 [] dir = "West" -> 4 [] dir = "East" -> 8

ExpectedMask(cc, x, y) ==
    (IF LevelWith(cc, x, y, "North") THEN BitOf("North") ELSE 0)
    + (IF LevelWith(cc, x, y, "South") THEN BitOf("South") ELSE 0)
    + (IF LevelWith(cc, x, y, "West") THEN BitOf("West") ELSE 0)
    + (IF LevelWith(cc, x, y, "East") THEN BitOf("East") ELSE 0)

\* Bit b (of weight 1, 2, 4 or 8) is set in mask.
HasBit(mask, b) == (mask \div b) % 2 = 1

\* C11: in the combined mesh every tile has one top face, whose second colour
\* component is a mask in 0..15 with bit 0, 1, 2, 3 (North, South, West, East)
\* set exactly when that neighbour is on the grid and its highest resolved
\* corner is within 0.01 of the tile's own highest corner; an off-grid
\* neighbour never sets its bit.
C11_BlendMaskBits ==
    BuiltCombined =>
        LET cc == CornerTable
        IN  /\ \A xy \in GridTiles :
                 Cardinality({q \in TopQuads(result.value) :
                                 /\ FaceX(result.value, q) = xy[1]
                                 /\ FaceY(result.value, q) = xy[2]}) = 1
            /\ \A q \in TopQuads(result.value) :
                 LET x == FaceX(result.value, q)
                     y == FaceY(result.value, q)
                     mask == QuadColor(result.value, q)[2]
                 IN  /\ OnGrid(x, y)
                     /\ UniformColor(result.value, q)
                     /\ mask \in 0..15
                     /\ mask = ExpectedMask(cc, x, y)
                     /\ \A dir \in RampDirection :
                          /\ HasBit(mask, BitOf(dir)) <=> LevelWith(cc, x, y, dir)
                          /\ ~NbOnGrid(x, y, dir) => ~HasBit(mask, BitOf(dir))

\* The combined mesh holds a top face with the bit set towards a ramp whose
\* lowest corner is below the tile, and a top face with the bit clear towards
\* an on-grid neighbour.
C11_Witness ==
    /\ BuiltCombined
    /\ \E q \in TopQuads(result.value), dir \in RampDirection :
          /\ HasBit(QuadColor(result.value, q)[2], BitOf(dir))
          /\ NbKindIsRamp(FaceX(result.value, q), FaceY(result.value, q), dir)
          /\ \E i \in 1..4 :
                CornerTable[<<NbX(FaceX(result.value, q), dir), NbY(FaceY(result.value, q), dir)>>][i]
                    < MaxOf(CornerTable[<<FaceX(result.value, q), FaceY(result.value, q)>>])
    /\ \E q \in TopQuads(result.value), dir \in RampDirection :
          /\ NbOnGrid(FaceX(result.value, q), FaceY(result.value, q), dir)
          /\ ~HasBit(QuadColor(result.value, q)[2], BitOf(dir))

BuiltPerType == result.call = "build_map_meshes"

IndexOf(t) ==
    CASE t = "Grass" -> 0 [] t = "Dirt" -> 1 [] t = "Sand" -> 2 [] t = "Rock" -> 3

TilesOfType(t) == {xy \in GridTiles : TileAt(xy[1], xy[2]).tile_type = t}

\* The number of vertices of the per-type mesh for t, 0 when there is none.
PerTypeCount(meshes, t) ==
    IF t \in DOMAIN meshes THEN Len(Positions(meshes[t])) ELSE 0

\* The number of vertices of the combined mesh whose layer index is i.
LayerCount(combined, i) ==
    IF "UV_1" \in DOMAIN combined.attributes
    THEN Cardinality({v \in 1..Len(combined.attributes["UV_1"].data) :
                         combined.attributes["UV_1"].data[v][1] = i})
    ELSE 0

\* C12: for every surface type T the per-type mesh of build_map_meshes has as
\* many vertices as build_combined_mesh of the same grid has vertices with
\* T's layer index; a type without tiles has no per-type mesh and no vertex in
\* the combined mesh; the combined vertex count is the sum of the per-type
\* counts.
C12_PerTypeMatchesCombined ==
    BuiltPerType =>
        LET combined == build_combined_mesh(map)
        IN  /\ DOMAIN result.value = {t \in TileType : TilesOfType(t) # {}}
            /\ \A t \in TileType :
                 /\ PerTypeCount(result.value, t) = LayerCount(combined, IndexOf(t))
                 /\ TilesOfType(t) = {} =>
                        /\ t \notin DOMAIN result.value
                        /\ LayerCount(combined, IndexOf(t)) = 0
            /\ Len(Positions(combined)) =
                   PerTypeCount(result.value, "Grass") + PerTypeCount(result.value, "Dirt")
                   + PerTypeCount(result.value, "Sand") + PerTypeCount(result.value, "Rock")

\* Per-type meshes were built of a grid with two surface types, both with
\* several tiles and with side faces, and a type without tiles.
C12_Witness ==
    /\ BuiltPerType
    /\ Cardinality(TilesOfType("Grass")) >= 2
    /\ Cardinality(TilesOfType("Rock")) >= 2
    /\ TilesOfType("Dirt") = {}
    /\ PerTypeCount(result.value, "Grass") > 6 * Cardinality(TilesOfType("Grass"))
    /\ PerTypeCount(result.value, "Rock") > 6 * Cardinality(TilesOfType("Rock"))

\* ---------------------------------------------------------------- claims: MeshBuffers
ChannelLength(channel, n) == channel = None \/ Len(channel[1]) = n

\* C13: after any sequence of push_quad and add_side_face calls, positions,
\* normals, uvs and indices have the same length, equal to next_index and a
\* multiple of 6; the layer and colour channels, when present, have that
\* length too; indices[i] = i for every i (0-based), so every index is a
\* valid offset into the vertex arrays.
C13_ChannelsAligned ==
    /\ Len(mesh_buffers.positions) = mesh_buffers.next_index
    /\ Len(mesh_buffers.normals) = mesh_buffers.next_index
    /\ Len(mesh_buffers.uvs) = mesh_buffers.next_index
    /\ Len(mesh_buffers.indices) = mesh_buffers.next_index
    /\ mesh_buffers.next_index % 6 = 0
    /\ ChannelLength(mesh_buffers.tile_layers, mesh_buffers.next_index)
    /\ ChannelLength(mesh_buffers.colors, mesh_buffers.next_index)
    /\ \A i \in 1..Len(mesh_buffers.indices) :
          /\ mesh_buffers.indices[i] = i - 1
          /\ mesh_buffers.indices[i] < Len(mesh_buffers.positions)

\* A full buffer with the layer and colour channels holds a top quad and a
\* side face.
C13_Witness ==
    /\ mesh_buffers.tile_layers # None
    /\ mesh_buffers.colors # None
    /\ mesh_buffers.next_index = 6 * MaxQuads
    /\ \E q \in Quads(into_mesh(mesh_buffers)) : IsSide(into_mesh(mesh_buffers), q)
    /\ \E q \in Quads(into_mesh(mesh_buffers)) : IsTop(into_mesh(mesh_buffers), q)

\* ---------------------------------------------------------------- claims: weight-map raster
Created == result.call = "splatmap::create"

Written == result.call = "splatmap::write"

\* The byte of channel c (0..3) of the pixel at (x, y) of a raster w pixels wide.
ChannelByte(img, w, x, y, c) == img.data[(y * w + x) * 4 + c + 1]

\* The raster is w x h pixels of 4 channels of 8 bits.
IsRaster(img, w, h) ==
    /\ img.texture_descriptor.size.width = w
    /\ img.texture_descriptor.size.height = h
    /\ img.texture_descriptor.size.depth_or_array_layers = 1
    /\ img.texture_descriptor.format = "Rgba8Unorm"
    /\ Len(img.data) = w * h * 4

AllZero(img) == \A i \in 1..Len(img.data) : img.data[i] = 0

\* C14: for a grid with width >= 1 and height >= 1, create returns a raster
\* of exactly width x height pixels with 4 channels, where the pixel at (x, y)
\* has 255 in the channel of the surface-type index of tile (x, y) and 0 in
\* the other three; a grid of one type i has channel i at 255 everywhere.
C14_OneHotPixels ==
    (Created /\ map.width >= 1 /\ map.height >= 1) =>
        /\ IsRaster(image, map.width, map.height)
        /\ \A xy \in GridTiles, c \in 0..3 :
              ChannelByte(image, map.width, xy[1], xy[2], c) =
                  IF c = IndexOf(TileAt(xy[1], xy[2]).tile_type) THEN 255 ELSE 0
        /\ \A t \in TileType :
              TilesOfType(t) = GridTiles =>
                  \A xy \in GridTiles, c \in 0..3 :
                      ChannelByte(image, map.width, xy[1], xy[2], c) =
                          IF c = IndexOf(t) THEN 255 ELSE 0

\* A raster was created of a grid of several rows and columns holding three
\* surface types, another one than Grass in the last row.
C14_Witness ==
    /\ Created
    /\ map.width >= 2 /\ map.height >= 2
    /\ Cardinality({TileAt(xy[1], xy[2]).tile_type : xy \in GridTiles}) >= 3
    /\ \E x \in 0..(map.width - 1) : TileAt(x, map.height - 1).tile_type # "Grass"

Degenerate == map.width = 0 \/ map.height = 0

\* C15 as stated: for every degenerate grid (width = 0 or height = 0, the
\* other dimension above 1 included) create gives a 1x1 raster of four zero
\* bytes.
C15_DegenerateIsOneByOne ==
    (Created /\ Degenerate) =>
        /\ IsRaster(image, 1, 1)
        /\ image.data = <<0, 0, 0, 0>>

\* C15 amended: for every degenerate grid create gives a raster of
\* max(width, 1) x max(height, 1) pixels whose bytes are all zero, which is
\* 1x1 when the other dimension is 0 or 1.
C15_DegenerateIsZeroFilled ==
    (Created /\ Degenerate) =>
        /\ IsRaster(image, IF map.width = 0 THEN 1 ELSE map.width,
                           IF map.height = 0 THEN 1 ELSE map.height)
        /\ AllZero(image)
        /\ (map.width <= 1 /\ map.height <= 1) =>
              (IsRaster(image, 1, 1) /\ image.data = <<0, 0, 0, 0>>)

\* A raster was created of a grid without columns and with two rows.
C15_Witness ==
    /\ Created
    /\ map.width = 0
    /\ map.height = 2

\* The fields of a raster that write sets on every path.
Pixels(img) ==
    <<img.texture_descriptor.size, img.texture_descriptor.format, img.data>>

\* C16: after write the target has the dimensions, format and pixel bytes of
\* create of the grid, for every prior target; a target whose size and format
\* match is rewritten in place (create is not called and the fields write
\* does not set are kept), any other is replaced by the created raster, and
\* create is called at most once.
C16_WriteMatchesCreate ==
    Written =>
        /\ Pixels(image) = Pixels(create(map))
        /\ result.creates <= 1
        /\ IF /\ result.target.texture_descriptor.size =
                    [width |-> IF map.width = 0 THEN 1 ELSE map.width,
                     height |-> IF map.height = 0 THEN 1 ELSE map.height,
                     depth_or_array_layers |-> 1]
              /\ result.target.texture_descriptor.format = "Rgba8Unorm"
           THEN /\ result.creates = 0
                /\ image.texture_descriptor.dimension
                       = result.target.texture_descriptor.dimension
           ELSE /\ result.creates = 1
                /\ image = create(map)

\* write rewrote in place a target of another texture dimension and a target
\* whose data was shorter than the raster.
C16_Witness ==
    /\ Written
    /\ result.creates = 0
    /\ \/ result.target.texture_descriptor.dimension = "D3"
       \/ Len(result.target.data) < Len(image.data)
    /\ result.target.data # image.data
    /\ map.width >= 2

\* ---------------------------------------------------------------- claims: BufferWriter
\* The number a view or an accessor holds under a key, 0 when it has none.
NumberAt(object, key) ==
    LET found == SelectSeq(object.v, LAMBDA e : e[1] = key)
    IN  IF found = <<>> THEN 0 ELSE found[1][2].v

HasKey(object, key) == \E i \in 1..Len(object.v) : object.v[i][1] = key

ViewOffset(w, i) == NumberAt(w.buffer_views[i], "byteOffset")

ViewEnd(w, i) == ViewOffset(w, i) + NumberAt(w.buffer_views[i], "byteLength")

Successes == SelectSeq(pushes, LAMBDA p : p.result.ok)

\* What holds of the writer and of the indices returned so far.
WriterConsistent ==
    /\ Len(writer.accessors) = Len(Successes)
    /\ Len(writer.buffer_views) = Len(Successes)
    /\ \A k \in 1..Len(Successes) :
          /\ Successes[k].result.value = k - 1
          /\ NumberAt(writer.accessors[k], "bufferView") = k - 1
          /\ HasKey(writer.accessors[k], "bufferView")
          /\ ViewOffset(writer, k) % 4 = 0
          /\ ViewEnd(writer, k) > ViewOffset(writer, k)
          /\ ViewEnd(writer, k) <= Len(writer.data)
          /\ \A j \in 1..(k - 1) : ViewEnd(writer, j) <= ViewOffset(writer, k)
    /\ \A k \in 1..Len(pushes) : pushes[k].values = <<>> <=> ~pushes[k].result.ok

\* What a push keeps: the views, accessors and bytes already there, and the
\* whole writer when it fails.
PushKeeps ==
    /\ Len(writer'.buffer_views) >= Len(writer.buffer_views)
    /\ Len(writer'.accessors) >= Len(writer.accessors)
    /\ Len(writer'.data) >= Len(writer.data)
    /\ \A i \in 1..Len(writer.buffer_views) : writer'.buffer_views[i] = writer.buffer_views[i]
    /\ \A i \in 1..Len(writer.accessors) : writer'.accessors[i] = writer.accessors[i]
    /\ \A i \in 1..Len(writer.data) : writer'.data[i] = writer.data[i]
    /\ (Len(pushes') > Len(pushes) /\ ~pushes'[Len(pushes')].result.ok) => writer' = writer
    /\ (Len(pushes') > Len(pushes) /\ pushes'[Len(pushes')].values = <<>>) => writer' = writer

\* C18: after any sequence of pushes the k-th successful one returned
\* accessor index k-1, accessor k-1 references view k-1, every view's byte
\* offset is a multiple of 4 and its byte range lies inside the arena after
\* the ranges of the earlier views; no push changes an earlier view, accessor
\* or arena byte; a push of an empty array fails and leaves the writer as it
\* was.
C18_WriterAppendOnly == [](WriterConsistent) /\ [][PushKeeps]_vars

\* Four pushes were made: a failed one between successful ones, and three
\* views in the arena, the first with bounds.
C18_Witness ==
    /\ Len(pushes) = 4
    /\ pushes[1].result.ok
    /\ ~pushes[2].result.ok
    /\ pushes[3].result.ok
    /\ pushes[4].result.ok
    /\ HasKey(writer.accessors[1], "min")
    /\ ViewOffset(writer, 3) > ViewOffset(writer, 2)
    /\ ViewOffset(writer, 2) > 0

\* ---------------------------------------------------------------- claims: mesh_to_glb
Exported == result.call = "mesh_to_glb"

Has(mesh, name) == name \in DOMAIN mesh.attributes

Layout(mesh, name) == mesh.attributes[name].format

Count(mesh, name) == Len(mesh.attributes[name].data)

\* Position, normal or primary UV is missing or in another element layout.
RequiredBad(mesh) ==
    \/ ~Has(mesh, "POSITION") \/ ~Has(mesh, "NORMAL") \/ ~Has(mesh, "UV_0")
    \/ Layout(mesh, "POSITION") # "Float32x3"
    \/ Layout(mesh, "NORMAL") # "Float32x3"
    \/ Layout(mesh, "UV_0") # "Float32x2"

CountsDiffer(mesh) ==
    \/ Count(mesh, "NORMAL") # Count(mesh, "POSITION")
    \/ Count(mesh, "UV_0") # Count(mesh, "POSITION")

OptionalCountBad(mesh) ==
    \E name \in {"UV_1", "COLOR"} :
        Has(mesh, name) /\ Count(mesh, name) # Count(mesh, "POSITION")

OptionalLayoutBad(mesh) ==
    \/ Has(mesh, "UV_1") /\ Layout(mesh, "UV_1") # "Float32x2"
    \/ Has(mesh, "COLOR") /\ Layout(mesh, "COLOR") # "Float32x4"

NoIndices(mesh) == mesh.indices = None \/ mesh.indices[1].data = <<>>

\* The meshes the claim lists as refused.
Malformed(mesh) ==
    \/ RequiredBad(mesh)
    \/ ~RequiredBad(mesh) /\ CountsDiffer(mesh)
    \/ ~RequiredBad(mesh) /\ OptionalCountBad(mesh)
    \/ ~RequiredBad(mesh) /\ Count(mesh, "POSITION") = 0
    \/ NoIndices(mesh)

\* The result is an error, which carries no bytes.
IsError(res) == ~res.ok /\ DOMAIN res = {"ok", "error"}

\* The result is a byte string starting with the four bytes "glTF".
IsContainer(res) ==
    /\ res.ok
    /\ Len(res.value) >= 28
    /\ SubSeq(res.value, 1, 4) = <<103, 108, 84, 70>>

\* C17 as stated: mesh_to_glb gives an error and no bytes when the mesh lacks
\* position, normal or primary UV, has one of them in another layout, has
\* differing position, normal or UV counts, has a secondary-UV or colour
\* channel of another count than the positions, has no or no indices, or has
\* no vertices; for every other mesh it returns a container.
C17_RefusedAsListed ==
    Exported =>
        IF Malformed(result.mesh) THEN IsError(result.value) ELSE IsContainer(result.value)

\* C17 amended: the meshes refused are those listed and those whose
\* secondary-UV or colour channel is in another element layout; every other
\* mesh gives a container.
C17_RefusedOrContainer ==
    Exported =>
        IF Malformed(result.mesh) \/ OptionalLayoutBad(result.mesh)
        THEN IsError(result.value) ELSE IsContainer(result.value)

\* A mesh was refused whose only defect is a colour channel shorter than the
\* positions.
C17_Witness ==
    /\ Exported
    /\ IsError(result.value)
    /\ ~RequiredBad(result.mesh)
    /\ ~CountsDiffer(result.mesh)
    /\ ~NoIndices(result.mesh)
    /\ ~OptionalLayoutBad(result.mesh)
    /\ Count(result.mesh, "POSITION") = 4
    /\ Has(result.mesh, "COLOR") /\ Count(result.mesh, "COLOR") = 3
    /\ Has(result.mesh, "UV_1") /\ Count(result.mesh, "UV_1") = 4

Accepted == Exported /\ result.value.ok

Glb == result.value.value

\* The little-endian 32-bit word at byte offset at (0-based) of bytes.
WordAt(bytes, at) ==
    bytes[at + 1] + 256 * bytes[at + 2] + 65536 * bytes[at + 3] + 16777216 * bytes[at + 4]

JsonLength == WordAt(Glb, 12)

JsonChunk == SubSeq(Glb, 21, 20 + JsonLength)

BinLength == WordAt(Glb, 20 + JsonLength)

BinChunk == SubSeq(Glb, 29 + JsonLength, 28 + JsonLength + BinLength)

\* The length of the JSON chunk without the spaces at its end.
TextLength ==
    CHOOSE n \in 0..JsonLength :
        /\ n = 0 \/ JsonChunk[n] # 32
        /\ \A i \in (n + 1)..JsonLength : JsonChunk[i] = 32

\* The document the container was written from.
Document == root_of(push_all(extract_all(result.mesh).value).value)

Field(object, key) == map_get(object, key)[1]

\* C19: an accepted mesh gives the words 0x46546C67, 2 and the total length,
\* which is 12 + 8 + the JSON chunk's length + 8 + the binary chunk's length
\* and the number of bytes returned; the JSON chunk follows its length and
\* the tag 0x4E4F534A, the binary chunk its length and the tag 0x004E4942;
\* both lengths are multiples of 4; the JSON is padded with spaces and the
\* binary with zero bytes.
C19_ContainerLayout ==
    Accepted =>
        /\ WordAt(Glb, 0) = 1179937895
        /\ WordAt(Glb, 4) = 2
        /\ WordAt(Glb, 8) = 12 + 8 + JsonLength + 8 + BinLength
        /\ WordAt(Glb, 8) = Len(Glb)
        /\ WordAt(Glb, 16) = 1313821514
        /\ WordAt(Glb, 24 + JsonLength) = 5130562
        /\ JsonLength % 4 = 0
        /\ BinLength % 4 = 0
        /\ JsonChunk[1] = 123
        /\ JsonChunk[TextLength] = 125
        /\ JsonLength - TextLength < 4
        /\ SubSeq(JsonChunk, 1, TextLength) = to_vec(Document)
        /\ LET unpadded == Field(Field(Document, "buffers").v[1], "byteLength").v
           IN  /\ unpadded <= BinLength
               /\ BinLength - unpadded < 4
               /\ \A i \in (unpadded + 1)..BinLength : BinChunk[i] = 0

\* A mesh of four vertices with a colour channel was accepted and its JSON
\* text needed padding.
C19_Witness ==
    /\ Accepted
    /\ Count(result.mesh, "POSITION") = 4
    /\ Has(result.mesh, "COLOR")
    /\ JsonLength - TextLength > 0

Accessors == Field(Document, "accessors").v

Views == Field(Document, "bufferViews").v

Primitive == Field(Field(Document, "meshes").v[1], "primitives").v[1]

\* The bytes of the binary chunk in the view that accessor a (0-based) references.
ViewBytes(a) ==
    LET view == Views[NumberAt(Accessors[a + 1], "bufferView") + 1]
    IN  SubSeq(BinChunk, NumberAt(view, "byteOffset") + 1,
               NumberAt(view, "byteOffset") + NumberAt(view, "byteLength"))

\* The float whose four bytes are at offset at of bytes.
FloatAt(bytes, at) == CHOOSE v \in F32 : f32_to_le_bytes(v) = SubSeq(bytes, at + 1, at + 4)

IsFloat(bytes, at) == \E v \in F32 : f32_to_le_bytes(v) = SubSeq(bytes, at + 1, at + 4)

\* The lowest and the highest of a non-empty set of numbers.
Lowest(S) == CHOOSE v \in S : \A u \in S : v <= u

Highest(S) == CHOOSE v \in S : \A u \in S : u <= v

FloatsOf(array) == [k \in 1..Len(array.v) |-> array.v[k].v]

\* C20: for an accepted mesh the bytes of the binary chunk in the position
\* accessor's view are the input positions, those in the index accessor's
\* view are the input indices as 32-bit unsigned values, 16-bit input
\* included; the position accessor, and no other, carries min and max, the
\* per-axis extremes of the input positions.
C20_RoundTrip ==
    Accepted =>
        LET positions == result.mesh.attributes["POSITION"].data
            indices == result.mesh.indices[1].data
            pa == Field(Field(Primitive, "attributes"), "POSITION").v
            ia == Field(Primitive, "indices").v
            pbytes == ViewBytes(pa)
            ibytes == ViewBytes(ia)
        IN  /\ SubSeq(JsonChunk, 1, TextLength) = to_vec(Document)
            /\ Len(pbytes) = 12 * Len(positions)
            /\ \A i \in 1..Len(positions), k \in 1..3 :
                  /\ IsFloat(pbytes, 12 * (i - 1) + 4 * (k - 1))
                  /\ FloatAt(pbytes, 12 * (i - 1) + 4 * (k - 1)) = positions[i][k]
            /\ Len(ibytes) = 4 * Len(indices)
            /\ \A i \in 1..Len(indices) : WordAt(ibytes, 4 * (i - 1)) = indices[i]
            /\ NumberAt(Accessors[ia + 1], "componentType") = 5125
            /\ \A a \in 1..Len(Accessors) :
                  /\ HasKey(Accessors[a], "min") <=> a = pa + 1
                  /\ HasKey(Accessors[a], "max") <=> a = pa + 1
            /\ FloatsOf(Field(Accessors[pa + 1], "min")) =
                   [k \in 1..3 |-> Lowest({positions[i][k] : i \in 1..Len(positions)})]
            /\ FloatsOf(Field(Accessors[pa + 1], "max")) =
                   [k \in 1..3 |-> Highest({positions[i][k] : i \in 1..Len(positions)})]

\* A quad with 16-bit indices and a colour channel was accepted.
C20_Witness ==
    /\ Accepted
    /\ result.mesh.indices[1].format = "U16"
    /\ Count(result.mesh, "POSITION") = 4
    /\ Has(result.mesh, "COLOR")

\* The accessor index the primitive gives for an attribute name.
AttributeIndex(name) == Field(Field(Primitive, "attributes"), name).v

\* C21: for an accepted mesh the primitive references TEXCOORD_1 exactly when
\* the mesh has a secondary UV channel and COLOR_0 exactly when it has a
\* colour channel; the accessors are position 0, normal 1, primary UV 2, then
\* secondary UV and colour in that order when present, and the index accessor
\* last; there are 4 to 6 accessors and as many buffer views.
C21_AccessorOrder ==
    Accepted =>
        LET attributes == Field(Primitive, "attributes")
            uv1 == IF Has(result.mesh, "UV_1") THEN 1 ELSE 0
            color == IF Has(result.mesh, "COLOR") THEN 1 ELSE 0
        IN  /\ SubSeq(JsonChunk, 1, TextLength) = to_vec(Document)
            /\ Len(Field(Field(Document, "meshes").v[1], "primitives").v) = 1
            /\ HasKey(attributes, "TEXCOORD_1") <=> Has(result.mesh, "UV_1")
            /\ HasKey(attributes, "COLOR_0") <=> Has(result.mesh, "COLOR")
            /\ AttributeIndex("POSITION") = 0
            /\ AttributeIndex("NORMAL") = 1
            /\ AttributeIndex("TEXCOORD_0") = 2
            /\ uv1 = 1 => AttributeIndex("TEXCOORD_1") = 3
            /\ color = 1 => AttributeIndex("COLOR_0") = 3 + uv1
            /\ Field(Primitive, "indices").v = 3 + uv1 + color
            /\ Len(Accessors) = 4 + uv1 + color
            /\ Len(Accessors) \in 4..6
            /\ Len(Views) = Len(Accessors)
            /\ \A a \in 1..Len(Accessors) : NumberAt(Accessors[a], "bufferView") = a - 1

\* A mesh with a colour channel and no secondary UV channel was accepted.
C21_Witness ==
    /\ Accepted
    /\ Has(result.mesh, "COLOR")
    /\ ~Has(result.mesh, "UV_1")

\* ---------------------------------------------------------------- claims: gaps between neighbours
\* The side faces of a mesh that stand on edge dir of tile (x, y).
FacesOn(mesh, x, y, dir) ==
    {q \in SideQuads(mesh) :
        FaceX(mesh, q) = x /\ FaceY(mesh, q) = y /\ FaceDir(mesh, q) = dir}

\* C30: for every tile A and on-grid neighbour B across an edge: if A's
\* corner height is strictly greater than B's at an endpoint, A has a side
\* face on that edge reaching from A's height down to B's height at that
\* endpoint; if the heights are equal at both endpoints neither tile has a
\* face on the edge; of two Floor tiles of different elevation exactly the
\* higher one has the face.
C30_NoUncoveredGap ==
    Built =>
        LET cc == CornerTable
        IN  \A mt \in BuiltMeshes : \A xy \in mt[2], dir \in RampDirection :
              NbOnGrid(xy[1], xy[2], dir) =>
                LET ta == TopA(cc, xy[1], xy[2], dir)
                    tb == TopB(cc, xy[1], xy[2], dir)
                    na == NbA(cc, xy[1], xy[2], dir)
                    nb == NbB(cc, xy[1], xy[2], dir)
                    faces == FacesOn(mt[1], xy[1], xy[2], dir)
                    own == TileAt(xy[1], xy[2])
                    other == TileAt(NbX(xy[1], dir), NbY(xy[2], dir))
                IN  /\ ta > na =>
                          \E q \in faces : V0(mt[1], q)[2] = ta /\ V3(mt[1], q)[2] = na
                    /\ tb > nb =>
                          \E q \in faces : V1(mt[1], q)[2] = tb /\ V2(mt[1], q)[2] = nb
                    /\ (ta = na /\ tb = nb) => faces = {}
                    /\ (own.kind = "Floor" /\ other.kind = "Floor") =>
                          /\ own.elevation > other.elevation => Cardinality(faces) = 1
                          /\ own.elevation < other.elevation => faces = {}

\* A mesh was built of a grid with a tile higher than its neighbour at one
\* endpoint of their edge only, two Floor tiles of different elevation side
\* by side, and two neighbours level along their edge.
C30_Witness ==
    /\ Built
    /\ \E xy \in GridTiles, dir \in RampDirection :
          /\ NbOnGrid(xy[1], xy[2], dir)
          /\ TopA(CornerTable, xy[1], xy[2], dir) > NbA(CornerTable, xy[1], xy[2], dir)
          /\ TopB(CornerTable, xy[1], xy[2], dir) = NbB(CornerTable, xy[1], xy[2], dir)
    /\ \E xy \in GridTiles, dir \in RampDirection :
          /\ NbOnGrid(xy[1], xy[2], dir)
          /\ TileAt(xy[1], xy[2]).kind = "Floor"
          /\ TileAt(NbX(xy[1], dir), NbY(xy[2], dir)).kind = "Floor"
          /\ TileAt(xy[1], xy[2]).elevation > TileAt(NbX(xy[1], dir), NbY(xy[2], dir)).elevation
    /\ \E xy \in GridTiles, dir \in RampDirection :
          /\ NbOnGrid(xy[1], xy[2], dir)
          /\ TopA(CornerTable, xy[1], xy[2], dir) = NbA(CornerTable, xy[1], xy[2], dir)
          /\ TopB(CornerTable, xy[1], xy[2], dir) = NbB(CornerTable, xy[1], xy[2], dir)

\* ---------------------------------------------------------------- claims: TileMap
Accessed == result.call \in {"TileMap::get", "TileMap::set"}

OutOfRange == result.x >= result.before.width \/ result.y >= result.before.height

\* C23 as stated: TileMap::get and TileMap::set at a coordinate with
\* x >= width or y >= height panic instead of returning or overwriting the
\* tile at another in-range position.
C23_OutOfRangePanics == (Accessed /\ OutOfRange) => result.outcome.panicked

\* C24: the tile sequence has length width * height after new and after
\* every in-range set; (x, y) -> y * width + x is one-to-one from the in-range
\* coordinates onto 0..width*height-1; an in-range set(x, y, t) makes
\* get(x, y) return t and leaves width, height and every other tile as they
\* were.
C24_RowMajorFrame ==
    LET coords == (0..(map.width - 1)) \X (0..(map.height - 1))
    IN  /\ Len(map.tiles) = map.width * map.height
        /\ edits = 0 => map = new(map.width, map.height)
        /\ \A c \in coords : idx(map, c[1], c[2]) = c[2] * map.width + c[1]
        /\ {idx(map, c[1], c[2]) : c \in coords} = 0..(map.width * map.height - 1)
        /\ \A c, e \in coords : idx(map, c[1], c[2]) = idx(map, e[1], e[2]) => c = e
        /\ (result.call = "TileMap::set" /\ ~OutOfRange) =>
              /\ ~result.outcome.panicked
              /\ TileMap_get(map, result.x, result.y) = Returned(result.t)
              /\ map.tiles[result.y * map.width + result.x + 1] = result.t
              /\ map.width = result.before.width
              /\ map.height = result.before.height
              /\ \A c \in coords :
                    c # <<result.x, result.y>> =>
                       map.tiles[c[2] * map.width + c[1] + 1]
                          = result.before.tiles[c[2] * map.width + c[1] + 1]

\* An in-range set changed a tile of a grid of several rows and columns that
\* an earlier set had already changed elsewhere.
C24_Witness ==
    /\ result.call = "TileMap::set"
    /\ ~OutOfRange
    /\ map.width > 1 /\ map.height > 1
    /\ edits = 2
    /\ result.before # new(map.width, map.height)
    /\ map.tiles[result.y * map.width + result.x + 1] # result.before.tiles[result.y * map.width + result.x + 1]
    /\ result.x > 0 /\ result.y > 0

\* ---------------------------------------------------------------- claims: map files
\* A save has just succeeded.
Saved == result.call = "save_map" /\ result.value.ok

\* The file the latest call named.
File == disk.files[result.path]

\* The mask 0xAA flips the binary digits 1, 3, 5 and 7 of a byte.
Masked(a, b) == \A k \in 0..7 : (bit(a, k) # bit(b, k)) <=> (k % 2 = 1)

SameTile(a, b) ==
    /\ a.kind = b.kind /\ a.tile_type = b.tile_type /\ a.x = b.x /\ a.y = b.y
    /\ a.elevation = b.elevation /\ a.ramp_direction = b.ramp_direction

SameGrid(a, b) ==
    /\ a.width = b.width /\ a.height = b.height /\ Len(a.tiles) = Len(b.tiles)
    /\ \A i \in 1..Len(a.tiles) : SameTile(a.tiles[i], b.tiles[i])

\* What save_map leaves in the file: the encoding, byte by byte under the mask.
C22_File ==
    Saved =>
        /\ Len(File) = Len(encode_to_vec(map).value)
        /\ \A i \in 1..Len(File) : Masked(File[i], encode_to_vec(map).value[i])
        /\ obfuscate(obfuscate(encode_to_vec(map).value)) = encode_to_vec(map).value
        /\ obfuscate(File) = encode_to_vec(map).value

\* A load that follows a successful save of the same path returns the saved grid.
C22_Load ==
    (Saved /\ result'.call = "load_map" /\ result'.path = result.path) =>
        /\ result'.value.ok
        /\ SameGrid(result'.value.value, map)

\* C22: for every grid, a 0x0 grid included, load_map applied to the file
\* written by save_map returns a grid equal to the original in width, height
\* and every tile field; the file is the encoding with every byte XORed with
\* 0xAA, of the same length, masking twice restores every byte, and the
\* decoder receives exactly the encoded bytes.
C22_SaveLoadRoundTrip == [](C22_File) /\ [][C22_Load]_vars

\* C22 witness: a grid with a negative elevation and a ramp direction has
\* been saved and loaded back; so has, in another state, a 0x0 grid.
C22_Witness ==
    /\ result.call = "load_map" /\ result.value.ok
    /\ SameGrid(result.value.value, map)
    /\ \E i \in 1..Len(map.tiles) : map.tiles[i].elevation < 0 /\ map.tiles[i].ramp_direction # None
    /\ \E i \in 1..Len(map.tiles) : map.tiles[i].elevation > 0 /\ map.tiles[i].tile_type = "Sand"

\* ---------------------------------------------------------------- claims: packages
\* The latest call was an export that returned an error.
ExportFailed == result.call = "export_package" /\ ~result.value.ok

\* C25: a single export has no partial-success state: whenever
\* export_package returns an error it has written nothing to the file
\* system, no output directory and no output file, complete or partial; only
\* a call that returns success leaves a package file.
C25_NoPartialExport ==
    /\ ExportFailed => disk = result.before
    /\ (result.call = "export_package" /\ result.value.ok) =>
          /\ result.output_path \in DOMAIN disk.files
          /\ disk.files[result.output_path].finished

\* ---------------------------------------------------------------- claims: the editor's frames
\* paint_tiles, rotate_ramps or draw_hover_highlight has just read hover to
\* reach the grid.
HoverAccess == result # NoCall /\ result.call \in {"paint_tiles", "rotate_ramps", "draw_hover_highlight"}

\* C26: in every reachable editor state and for every order of ui_panel,
\* update_hover, paint_tiles, rotate_ramps and draw_hover_highlight within a
\* frame, whenever one of the last three reads hover = (x, y) to access the
\* grid, x < width and y < height of the grid it accesses, so that no edit
\* lands on another tile and no index is out of bounds.
C26_HoverInRange ==
    HoverAccess =>
        /\ result.access.x < result.access.grid.width
        /\ result.access.y < result.access.grid.height
        /\ ~result.access.outcome.panicked

\* Every system of the frame has run.
FrameDone == frame.ran = BeforeRebuild \cup Rebuild \cup Cleanup

\* The raster and the meshes are those of the grid as it is now.
RebuiltFrom(m) ==
    /\ image.texture_descriptor.size = extent_from_map(m)
    /\ image.data = create(m).data
    /\ mesh_assets.runtime = build_combined_mesh(m)
    /\ \A t \in TileType :
          mesh_assets.layers[t] = IF t \in DOMAIN build_map_meshes(m)
                                  THEN build_map_meshes(m)[t] ELSE empty_mesh

\* C28: in every frame the systems that can change the grid (ui_panel,
\* paint_tiles, rotate_ramps) run before the rebuild systems and
\* mark_map_clean runs after them; every change to the grid sets map_dirty,
\* so a change is followed in the same frame by a rebuild from the changed
\* grid before the flag is cleared; the flag is false at the end of every
\* frame; after the first frame the rebuild systems do nothing in a frame
\* in which the grid was not written.
C28_RebuildEachChange ==
    /\ frame.ran \cap Rebuild # {} => BeforeRebuild \subseteq frame.ran
    /\ "mark_map_clean" \in frame.ran => Rebuild \subseteq frame.ran
    /\ (frame.changed /\ "mark_map_clean" \notin frame.ran) => state.map_dirty
    /\ (frame.changed /\ Rebuild \subseteq frame.ran) => (frame.worked = Rebuild /\ RebuiltFrom(map))
    /\ "mark_map_clean" \in frame.ran => ~state.map_dirty
    /\ (~frame.first /\ frame.ran = {}) => ~state.map_dirty
    /\ (~frame.first /\ ~frame.changed) => frame.worked = {}

\* C28 witness: a frame after the first in which paint_tiles changed a tile
\* of the grid has run all its systems, the three rebuilds having worked.
C28_Witness ==
    /\ ~frame.first /\ FrameDone /\ frame.changed /\ frame.worked = Rebuild
    /\ \E i \in 1..Len(map.tiles) : map.tiles[i].kind = "Ramp" /\ map.tiles[i].x = MaxWidth - 1
    /\ ~state.map_dirty /\ RebuiltFrom(map)

\* ---------------------------------------------------------------- claims: exporting from the editor
\* An export is running; what it was handed.
Exporting == state.export_task # None

Handed == state.export_task[1]

\* C27: whenever ui_panel starts an export, the weight-map PNG handed to the
\* export is the one-hot rasterisation of the grid snapshot (the clone of
\* state.map taken at that moment) from which the export builds the mesh and
\* the tilemap, for every order of paint_tiles, rotate_ramps and ui_panel in
\* the frame and whether or not map_dirty is set.
C27_WeightMapOfSnapshot ==
    Exporting =>
        /\ Handed.splat_png.png_of.width = extent_from_map(Handed.map).width
        /\ Handed.splat_png.png_of.height = extent_from_map(Handed.map).height
        /\ Handed.splat_png.png_of.data = create(Handed.map).data

\* No dialog and no export at once.
C29_NotBoth == ~(state.export_dialog_task # None /\ state.export_task # None)

\* A dialog starts only when nothing is pending; an export starts only from
\* a finished dialog and clears the status; a finished export leaves a status.
C29_Steps ==
    /\ (state.export_dialog_task = None /\ state'.export_dialog_task # None) =>
          (state.export_task = None /\ state'.export_task = None)
    /\ (state.export_task = None /\ state'.export_task # None) =>
          /\ state.export_dialog_task # None /\ state'.export_dialog_task = None
          /\ state'.last_export_status = None
    /\ (state.export_task # None /\ state'.export_task = None) =>
          state'.last_export_status \in {Success, Failure}
    /\ (state.export_task # None /\ state'.export_task # None) =>
          state'.export_task = state.export_task

\* C29: export_dialog_task and export_task are never both pending: an Export
\* click starts a dialog only when neither is pending and an export is
\* started only when a dialog finishes with a path, so at most one export
\* runs at a time; starting an export clears last_export_status, and when
\* the export finishes export_task is empty and last_export_status is
\* Success or Failure, after which a new export can be started.
C29_OneExportAtATime == [](C29_NotBoth) /\ [][C29_Steps]_vars

\* C29 witness: an export has finished with success and the dialog of a new
\* export is open.
C29_Witness ==
    /\ state.last_export_status = Success
    /\ state.export_dialog_task # None
    /\ state.export_task = None
    /\ ensure_extension(ExportPath, "tmemapdata") \in DOMAIN disk.files

====
